---- MODULE Spec2Model ----
(***************************************************************************)
(* Noise IK secure transport of zap (src/zap/src/crypto/noise.rs).         *)
(*                                                                         *)
(* Cryptography is symbolic.  A hash is the sequence of the items fed to   *)
(* it, an HKDF output is the chain of (salt half, input key material)      *)
(* pairs that produced it, a Diffie-Hellman output is the unordered pair   *)
(* of the two secrets, and an AEAD ciphertext is the record of the key,    *)
(* nonce, associated data and plaintext it was sealed with.  A public key  *)
(* is 32 bytes: the point (key) and the most significant bit (hi), which   *)
(* X25519 masks in a Diffie-Hellman but which every hash sees.             *)
(***************************************************************************)
EXTENDS Integers, Sequences, FiniteSets, TLC

VARIABLES
    cfg,      \* the two NoiseConfigs: static secret of the initiator and the responder
    rng,      \* number of ephemeral secrets drawn from the rng so far
    ihs,      \* the InitiatorHandshakeState returned by initiate_connection
    ihs_n,    \* number of live values (the original and its clones) of ihs
    rhs,      \* the ResponderHandshakeState returned by parse_client_init_message
    rhs_n,    \* number of live values of rhs
    msg1,     \* the first handshake message on the wire
    msg2,     \* handshake responses on the wire
    sess,     \* the NoiseSession held by each end of the connection
    wire,     \* frames (ciphertext, tag) each end has produced so far
    sealed,   \* history: nonces each session has sealed a message with
    reused,   \* history: a session sealed twice with one (write_key, nonce)
    derived,  \* history: sessions derived so far, per role
    accepted, \* history: number of frames each session has read successfully
    crypto_err, \* history: a call on the session failed with Decrypt or Encrypt
    last,     \* the last call: operation, input class and result
    our_handshake,   \* the HandshakeMsg of this node
    their_handshake, \* the HandshakeMsg received from the peer
    negotiated,      \* what perform_handshake returned, once it has run
    inbound,   \* inner stream of the NoiseStream: what the peer sent, not yet read
    outbound,  \* inner stream of the NoiseStream: what write_message has written
    io,        \* the last call on the NoiseStream and what it did to the inner stream
    rejected,  \* history: number of declared lengths read_message has rejected
    ok_after_reject, \* history: a call on the NoiseStream succeeded after a rejection
    hs_pc,     \* Transport::handshake: the statement the initiator is at
    sent,      \* Transport::handshake: the bytes written to the stream, in order
    flushed,   \* Transport::handshake: the written bytes have been flushed
    server,    \* the listening end of the stream: what it has done
    response,  \* the bytes the server has written, and how many the initiator took
    server_response, \* Transport::handshake: the buffer filled by read_exact
    trace,     \* history: the calls Transport::handshake made on the stream and the config
    returned,  \* what Transport::handshake returned
    conn_pc,   \* Network::connect_to_peer: the statement it is at
    conn_log,  \* history: the calls connect_to_peer made on the NoiseStream
    conns,     \* the connections one Transport is making at the same time
    set_a,     \* a ProtocolIdSet: built by insert, or received
    set_b,     \* a second ProtocolIdSet
    meet,      \* what intersect returned, once it has run
    inserted,  \* history: the ProtocolIds inserted into set_a
    read_buffer, \* NoiseStream.read_buffer
    read_pos,    \* NoiseStream.read_pos
    polled       \* the last poll_read, poll_write or poll_flush on the NoiseStream

\* the state of crypto/noise.rs
noise_vars == <<cfg, rng, ihs, ihs_n, rhs, rhs_n, msg1, msg2, sess, wire,
                sealed, reused, derived, accepted, crypto_err, last>>
\* the state of network/handshake.rs
negotiation_vars == <<our_handshake, their_handshake, negotiated>>
\* the state of a NoiseStream of network/transport.rs
\* its fields behind AsyncRead and AsyncWrite
buffer_vars == <<read_buffer, read_pos, polled>>
stream_vars == <<inbound, outbound, io, rejected, ok_after_reject, buffer_vars>>
\* the state of Transport::handshake and of the server it talks to
transport_vars == <<hs_pc, sent, flushed, server, response, server_response,
                    trace, returned>>
\* the state of Network::connect_to_peer
connect_vars == <<conn_pc, conn_log>>
\* the tasks that share one Transport, each in Transport::connect
concurrent_vars == <<conns>>
\* two values of ProtocolIdSet of network/handshake.rs
set_vars == <<set_a, set_b, meet, inserted>>
\* the state above the Noise session
upper_vars == <<negotiation_vars, stream_vars, transport_vars, connect_vars, concurrent_vars, set_vars>>

vars == <<noise_vars, upper_vars>>

(***************************************************************************)
(* Bounds of the model.                                                    *)
(***************************************************************************)
\* largest value of a nonce counter (u64::MAX in the code, scaled down)
U64_MAX == 2
\* connections one Transport makes at the same time
MaxConns == 2
\* values of one handshake state over its life: the original and its clones
MaxCopies == 2
\* length in bytes of an ordinary application message
MsgLen == 8
\* highest ordinal of a MessagingProtocolVersion
MaxVersion == 1
\* length prefixes above the maximum that a peer sends on one connection
MaxOversize == 2

(***************************************************************************)
(* Constants of the code.                                                  *)
(***************************************************************************)
MAX_SIZE_NOISE_MSG == 65535
AES_GCM_TAGLEN == 16
X25519_LEN == 32
PROTOCOL_NAME == <<"name", 0>>
\* payload length of Transport::handshake: the 8-byte timestamp
TIMESTAMP_SIZE == 8

Slots == {"ini", "resp"}
Peer(s) == IF s = "ini" THEN "resp" ELSE "ini"

\* the static key pairs the two configs are drawn from
StaticKeys == {1, 2}
\* ephemeral secrets are fresh: the n-th draw of the rng
Ephemeral(n) == 100 + n
\* the point a public key becomes when one of its low 255 bits is flipped
FlipPoint(key) == 0 - key - 1

(***************************************************************************)
(* Byte strings.                                                           *)
(***************************************************************************)
\* plaintexts: an identity and a length in bytes
Plain(id, len) == [id |-> id, len |-> len]
NoPlain == Plain(<<"none", 0>>, 0)
Data(n, len) == Plain(<<"data", n>>, len)

\* PublicKey::from(&StaticSecret)
PublicKeyOf(secret) == [key |-> secret, hi |-> 0]
\* PublicKey::as_bytes
as_bytes(pk) == <<"pk", pk.key, pk.hi>>
PkPlain(pk) == Plain(as_bytes(pk), X25519_LEN)
\* PublicKey::from([u8; 32]) of a decrypted static key
PkFromPlain(pt) == [key |-> pt.id[2], hi |-> pt.id[3]]

(***************************************************************************)
(* Helpers of noise.rs.                                                    *)
(***************************************************************************)
encrypted_len(plaintext_len) == plaintext_len + AES_GCM_TAGLEN

\* a handshake_init_msg_len that leaves the two tags out
init_msg_len_without_tags(payload_len) == X25519_LEN + X25519_LEN + payload_len

handshake_init_msg_len(payload_len) ==
    X25519_LEN + encrypted_len(X25519_LEN) + encrypted_len(payload_len)

handshake_resp_msg_len(payload_len) == X25519_LEN + encrypted_len(payload_len)

\* mix_hash: h := SHA-256(h || data)
mix_hash(h, data) == Append(h, data)

\* StaticSecret::diffie_hellman: the high bit of the public key is masked
diffie_hellman(secret, pk) == {secret, pk.key}

\* hkdf_split: HKDF(salt = ck, ikm = dh_output) expanded to 64 bytes, two halves
hkdf_split(ck, dh_output) ==
    LET okm == Append(ck.okm, <<ck.half, dh_output>>)
    IN  <<[okm |-> okm, half |-> 1], [okm |-> okm, half |-> 2]>>

\* the chaining key a handshake starts from
InitialCk == [okm |-> <<>>, half |-> 1]

\* mix_key: (new ck, k)
mix_key(ck, dh_output) ==
    LET s == hkdf_split(ck, dh_output) IN [ck |-> s[1], k |-> s[2]]

\* AEAD seal (ring seal_in_place_*): ciphertext and tag as one value
Seal(key, nonce, aad, pt) ==
    [key |-> key, nonce |-> nonce, aad |-> aad, pt |-> pt, intact |-> TRUE]

\* seal_in_place_append_tag: the bytes of in_out after the call
SealedLen(ct) == ct.pt.len + AES_GCM_TAGLEN

\* an open that does not authenticate the associated data
open_ignoring_aad(key, nonce, aad, ct) ==
    /\ ct.intact
    /\ ct.key = key
    /\ ct.nonce = nonce

\* AEAD open (ring open_in_place): the tag verifies only for the same key,
\* nonce, associated data and unmodified bytes
CanOpen(key, nonce, aad, ct) ==
    /\ ct.intact
    /\ ct.key = key
    /\ ct.nonce = nonce
    /\ ct.aad = aad

\* bytes of a ciphertext as fed to mix_hash
CtBytes(ct) == <<"ct", ct.key, ct.nonce, ct.aad, ct.pt, ct.intact>>

NoCt == Seal(InitialCk, 0, <<>>, NoPlain)

\* the all-zero 96-bit nonce of the handshake
ZeroNonce == 0

\* a constructor that forgets to mark the session valid
NoiseSession_new_invalid(write_key, read_key, remote_public_key) ==
    [valid |-> FALSE,
     remote_public_key |-> remote_public_key,
     write_key |-> write_key,
     write_nonce |-> 0,
     read_key |-> read_key,
     read_nonce |-> 0]

(***************************************************************************)
(* NoiseSession::new                                                       *)
(***************************************************************************)
NoiseSession_new(write_key, read_key, remote_public_key) ==
    [valid |-> TRUE,
     remote_public_key |-> remote_public_key,
     write_key |-> write_key,
     write_nonce |-> 0,
     read_key |-> read_key,
     read_nonce |-> 0]

\* NoiseSession::get_remote_static
get_remote_static(session) == session.remote_public_key

NoKey == [okm |-> <<>>, half |-> 0]
NoPk == [key |-> 0, hi |-> 0]
\* no session: the connection end holds none
NoSession ==
    [valid |-> FALSE, remote_public_key |-> NoPk, write_key |-> NoKey,
     write_nonce |-> 0, read_key |-> NoKey, read_nonce |-> 0]

NoInitMsg == [len |-> 0, e |-> NoPk, s |-> NoCt, p |-> NoCt]
NoRespMsg == [len |-> 0, e |-> NoPk, p |-> NoCt]
NoIhs == [h |-> <<>>, ck |-> InitialCk, e |-> 0, rs |-> NoPk]
NoRhs == [h |-> <<>>, ck |-> InitialCk, rs |-> NoPk, re |-> NoPk]

\* an initiator that seals its payload under the key of the es token, without
\* deriving a new one from ss
initiate_without_ss(private_key, e, prologue, remote_public, payload) ==
    LET rs == remote_public
        h0 == mix_hash(mix_hash(<<PROTOCOL_NAME>>, prologue), as_bytes(rs))
        e_pub == PublicKeyOf(e)
        h1 == mix_hash(h0, as_bytes(e_pub))
        k1 == mix_key(InitialCk, diffie_hellman(e, rs))
        enc_s == Seal(k1.k, ZeroNonce, h1, PkPlain(PublicKeyOf(private_key)))
        h2 == mix_hash(h1, CtBytes(enc_s))
        enc_p == Seal(k1.k, ZeroNonce, h2, payload)
        h3 == mix_hash(h2, CtBytes(enc_p))
    IN  [ret |-> "Ok",
         state |-> [h |-> h3, ck |-> k1.ck, e |-> e, rs |-> rs],
         msg |-> [len |-> handshake_init_msg_len(payload.len),
                  e |-> e_pub, s |-> enc_s, p |-> enc_p]]

(***************************************************************************)
(* NoiseConfig::initiate_connection.  e is the secret drawn from the rng.  *)
(***************************************************************************)
initiate_connection(private_key, e, prologue, remote_public, payload) ==
    LET rs == remote_public
        h0 == mix_hash(mix_hash(<<PROTOCOL_NAME>>, prologue), as_bytes(rs))
        e_pub == PublicKeyOf(e)
        h1 == mix_hash(h0, as_bytes(e_pub))
        \* -> es
        k1 == mix_key(InitialCk, diffie_hellman(e, rs))
        \* -> s
        enc_s == Seal(k1.k, ZeroNonce, h1, PkPlain(PublicKeyOf(private_key)))
        h2 == mix_hash(h1, CtBytes(enc_s))
        \* -> ss
        k2 == mix_key(k1.ck, diffie_hellman(private_key, rs))
        \* -> payload
        enc_p == Seal(k2.k, ZeroNonce, h2, payload)
        h3 == mix_hash(h2, CtBytes(enc_p))
        \* the Cursor over the Vec overwrites what was allocated and grows it
        \* if more is written
        allocated == handshake_init_msg_len(payload.len)
        written == X25519_LEN + SealedLen(enc_s) + SealedLen(enc_p)
    IN  [ret |-> "Ok",
         state |-> [h |-> h3, ck |-> k2.ck, e |-> e, rs |-> rs],
         msg |-> [len |-> IF written > allocated THEN written ELSE allocated,
                  e |-> e_pub, s |-> enc_s, p |-> enc_p]]

\* a responder that mixes the decoded point, not the received bytes, into h
parse_without_mixing_re(private_key, prologue, m) ==
    LET public_key == PublicKeyOf(private_key)
        h0 == mix_hash(mix_hash(<<PROTOCOL_NAME>>, prologue), as_bytes(public_key))
        re == m.e
        h1 == mix_hash(h0, as_bytes(PublicKeyOf(re.key)))
        k1 == mix_key(InitialCk, diffie_hellman(private_key, re))
        rs == PkFromPlain(m.s.pt)
        h2 == mix_hash(h1, CtBytes(m.s))
        k2 == mix_key(k1.ck, diffie_hellman(private_key, rs))
        h3 == mix_hash(h2, CtBytes(m.p))
        Err(e) == [ret |-> e, rs |-> NoPk, state |-> NoRhs, payload |-> NoPlain]
    IN  IF m.len > MAX_SIZE_NOISE_MSG THEN Err("ReceivedMsgTooLarge")
        ELSE IF m.len < X25519_LEN THEN Err("MsgTooShort")
        ELSE IF m.len < X25519_LEN + X25519_LEN + AES_GCM_TAGLEN THEN Err("MsgTooShort")
        ELSE IF ~CanOpen(k1.k, ZeroNonce, h1, m.s) THEN Err("Decrypt")
        ELSE IF ~CanOpen(k2.k, ZeroNonce, h2, m.p) THEN Err("Decrypt")
        ELSE [ret |-> "Ok", rs |-> rs,
              state |-> [h |-> h3, ck |-> k2.ck, rs |-> rs, re |-> re],
              payload |-> m.p.pt]

\* parse_client_init_message up to its first open_in_place: the sealed static
\* key of m opens
opens_static(private_key, prologue, m) ==
    LET h0 == mix_hash(mix_hash(<<PROTOCOL_NAME>>, prologue),
                       as_bytes(PublicKeyOf(private_key)))
        h1 == mix_hash(h0, as_bytes(m.e))
        k1 == mix_key(InitialCk, diffie_hellman(private_key, m.e))
    IN  CanOpen(k1.k, ZeroNonce, h1, m.s)

\* a responder that opens whatever follows the ephemeral key, without
\* reading 32 + 16 bytes for the sealed static key first
parse_opening_short_static(private_key, prologue, m) ==
    LET public_key == PublicKeyOf(private_key)
        h0 == mix_hash(mix_hash(<<PROTOCOL_NAME>>, prologue), as_bytes(public_key))
        re == m.e
        h1 == mix_hash(h0, as_bytes(re))
        k1 == mix_key(InitialCk, diffie_hellman(private_key, re))
        rs == PkFromPlain(m.s.pt)
        h2 == mix_hash(h1, CtBytes(m.s))
        k2 == mix_key(k1.ck, diffie_hellman(private_key, rs))
        h3 == mix_hash(h2, CtBytes(m.p))
        Err(e) == [ret |-> e, rs |-> NoPk, state |-> NoRhs, payload |-> NoPlain]
    IN  IF m.len > MAX_SIZE_NOISE_MSG THEN Err("ReceivedMsgTooLarge")
        ELSE IF m.len < X25519_LEN THEN Err("MsgTooShort")
        ELSE IF ~CanOpen(k1.k, ZeroNonce, h1, m.s) THEN Err("Decrypt")
        ELSE IF ~CanOpen(k2.k, ZeroNonce, h2, m.p) THEN Err("Decrypt")
        ELSE [ret |-> "Ok", rs |-> rs,
              state |-> [h |-> h3, ck |-> k2.ck, rs |-> rs, re |-> re],
              payload |-> m.p.pt]

(***************************************************************************)
(* NoiseConfig::parse_client_init_message                                  *)
(***************************************************************************)
parse_client_init_message(private_key, prologue, m) ==
    LET public_key == PublicKeyOf(private_key)
        h0 == mix_hash(mix_hash(<<PROTOCOL_NAME>>, prologue), as_bytes(public_key))
        \* <- e
        re == m.e
        h1 == mix_hash(h0, as_bytes(re))
        \* <- es
        k1 == mix_key(InitialCk, diffie_hellman(private_key, re))
        \* <- s
        rs == PkFromPlain(m.s.pt)
        h2 == mix_hash(h1, CtBytes(m.s))
        \* <- ss
        k2 == mix_key(k1.ck, diffie_hellman(private_key, rs))
        \* <- payload
        h3 == mix_hash(h2, CtBytes(m.p))
        Err(e) == [ret |-> e, rs |-> NoPk, state |-> NoRhs, payload |-> NoPlain]
    IN  IF m.len > MAX_SIZE_NOISE_MSG THEN Err("ReceivedMsgTooLarge")
        ELSE IF m.len < X25519_LEN THEN Err("MsgTooShort")
        ELSE IF m.len < X25519_LEN + X25519_LEN + AES_GCM_TAGLEN THEN Err("MsgTooShort")
        ELSE IF ~CanOpen(k1.k, ZeroNonce, h1, m.s) THEN Err("Decrypt")
        ELSE IF ~CanOpen(k2.k, ZeroNonce, h2, m.p) THEN Err("Decrypt")
        ELSE [ret |-> "Ok", rs |-> rs,
              state |-> [h |-> h3, ck |-> k2.ck, rs |-> rs, re |-> re],
              payload |-> m.p.pt]

\* a responder that assigns the keys as the initiator does: write = k1, read = k2
respond_without_swap(e, handshake_state, payload, buffer_len) ==
    LET required == handshake_resp_msg_len(payload.len)
        e_pub == PublicKeyOf(e)
        h1 == mix_hash(handshake_state.h, as_bytes(e_pub))
        k1 == mix_key(handshake_state.ck, diffie_hellman(e, handshake_state.re))
        k2 == mix_key(k1.ck, diffie_hellman(e, handshake_state.rs))
        enc_p == Seal(k2.k, ZeroNonce, h1, payload)
        split == hkdf_split(k2.ck, {})
    IN  IF buffer_len < required
        THEN [ret |-> "ResponseBufferTooSmall", session |-> NoSession,
              msg |-> NoRespMsg, rng_used |-> FALSE]
        ELSE [ret |-> "Ok",
              session |-> NoiseSession_new(split[1], split[2], handshake_state.rs),
              msg |-> [len |-> required, e |-> e_pub, p |-> enc_p],
              rng_used |-> TRUE]

\* a responder that finds the buffer too small only when it writes into it,
\* after it has drawn e and written e_pub
respond_checking_on_write(e, handshake_state, payload, buffer_len) ==
    LET required == handshake_resp_msg_len(payload.len)
        e_pub == PublicKeyOf(e)
        h1 == mix_hash(handshake_state.h, as_bytes(e_pub))
        k1 == mix_key(handshake_state.ck, diffie_hellman(e, handshake_state.re))
        k2 == mix_key(k1.ck, diffie_hellman(e, handshake_state.rs))
        enc_p == Seal(k2.k, ZeroNonce, h1, payload)
        split == hkdf_split(k2.ck, {})
    IN  IF buffer_len < required
        THEN [ret |-> "ResponseBufferTooSmall", session |-> NoSession,
              msg |-> [len |-> X25519_LEN, e |-> e_pub, p |-> NoCt],
              rng_used |-> TRUE]
        ELSE [ret |-> "Ok",
              session |-> NoiseSession_new(split[2], split[1], handshake_state.rs),
              msg |-> [len |-> required, e |-> e_pub, p |-> enc_p],
              rng_used |-> TRUE]

(***************************************************************************)
(* NoiseConfig::respond_to_client.  e is the secret drawn from the rng,    *)
(* buffer_len the length of the caller's response buffer.                  *)
(***************************************************************************)
respond_to_client(e, handshake_state, payload, buffer_len) ==
    LET required == handshake_resp_msg_len(payload.len)
        e_pub == PublicKeyOf(e)
        h1 == mix_hash(handshake_state.h, as_bytes(e_pub))
        \* -> ee
        k1 == mix_key(handshake_state.ck, diffie_hellman(e, handshake_state.re))
        \* -> se
        k2 == mix_key(k1.ck, diffie_hellman(e, handshake_state.rs))
        \* -> payload
        enc_p == Seal(k2.k, ZeroNonce, h1, payload)
        split == hkdf_split(k2.ck, {})
        \* the Cursor over the slice writes from its start, up to its length
        written == X25519_LEN + SealedLen(enc_p)
    IN  IF buffer_len < required
        THEN [ret |-> "ResponseBufferTooSmall", session |-> NoSession,
              msg |-> NoRespMsg, rng_used |-> FALSE]
        ELSE [ret |-> "Ok",
              session |-> NoiseSession_new(split[2], split[1], handshake_state.rs),
              msg |-> [len |-> IF written > buffer_len THEN buffer_len ELSE written,
                      e |-> e_pub, p |-> enc_p],
              rng_used |-> TRUE]

\* an initiator whose session reports the key received in the response, not
\* the key it dialled
finalize_reporting_re(private_key, handshake_state, m) ==
    LET re == m.e
        h1 == mix_hash(handshake_state.h, as_bytes(re))
        k1 == mix_key(handshake_state.ck, diffie_hellman(handshake_state.e, re))
        k2 == mix_key(k1.ck, diffie_hellman(private_key, re))
        split == hkdf_split(k2.ck, {})
        Err(e) == [ret |-> e, payload |-> NoPlain, session |-> NoSession]
    IN  IF m.len > MAX_SIZE_NOISE_MSG THEN Err("ReceivedMsgTooLarge")
        ELSE IF m.len < X25519_LEN THEN Err("MsgTooShort")
        ELSE IF ~CanOpen(k2.k, ZeroNonce, h1, m.p) THEN Err("Decrypt")
        ELSE [ret |-> "Ok", payload |-> m.p.pt,
              session |-> NoiseSession_new(split[1], split[2], re)]

(***************************************************************************)
(* NoiseConfig::finalize_connection                                        *)
(***************************************************************************)
finalize_connection(private_key, handshake_state, m) ==
    LET \* <- e
        re == m.e
        h1 == mix_hash(handshake_state.h, as_bytes(re))
        \* <- ee
        k1 == mix_key(handshake_state.ck, diffie_hellman(handshake_state.e, re))
        \* <- se
        k2 == mix_key(k1.ck, diffie_hellman(private_key, re))
        split == hkdf_split(k2.ck, {})
        Err(e) == [ret |-> e, payload |-> NoPlain, session |-> NoSession]
    IN  IF m.len > MAX_SIZE_NOISE_MSG THEN Err("ReceivedMsgTooLarge")
        ELSE IF m.len < X25519_LEN THEN Err("MsgTooShort")
        ELSE IF ~CanOpen(k2.k, ZeroNonce, h1, m.p) THEN Err("Decrypt")
        ELSE [ret |-> "Ok", payload |-> m.p.pt,
              session |-> NoiseSession_new(split[1], split[2], handshake_state.rs)]

\* u64::wrapping_add(1) in place of checked_add(1)
wrapping_add_1(n) == IF n = U64_MAX THEN 0 ELSE n + 1

(***************************************************************************)
(* u64::checked_add(1): None on overflow (here -1), never a wrapped value  *)
(***************************************************************************)
checked_add_1(n) == IF n = U64_MAX THEN 0 - 1 ELSE n + 1

\* a write that does not look at valid
write_ignoring_valid(session, message) ==
    LET ct == Seal(session.write_key, session.write_nonce, <<>>, message)
        next_nonce == checked_add_1(session.write_nonce)
    IN  IF message.len > MAX_SIZE_NOISE_MSG - AES_GCM_TAGLEN
        THEN [ret |-> "PayloadTooLarge", session |-> session, aead |-> FALSE, frame |-> NoCt]
        ELSE IF next_nonce < 0
        THEN [ret |-> "NonceOverflow", session |-> session, aead |-> TRUE, frame |-> NoCt]
        ELSE [ret |-> "Ok",
              session |-> [session EXCEPT !.write_nonce = next_nonce],
              aead |-> TRUE, frame |-> ct]

\* a write that advances the nonce before it knows the call will succeed
write_counting_rejected(session, message) ==
    LET ct == Seal(session.write_key, session.write_nonce, <<>>, message)
        next_nonce == checked_add_1(session.write_nonce)
        counted == IF next_nonce < 0 THEN session
                   ELSE [session EXCEPT !.write_nonce = next_nonce]
    IN  IF ~session.valid
        THEN [ret |-> "SessionClosed", session |-> session, aead |-> FALSE, frame |-> NoCt]
        ELSE IF message.len > MAX_SIZE_NOISE_MSG - AES_GCM_TAGLEN
        THEN [ret |-> "PayloadTooLarge", session |-> counted, aead |-> FALSE, frame |-> NoCt]
        ELSE IF next_nonce < 0
        THEN [ret |-> "NonceOverflow", session |-> session, aead |-> TRUE, frame |-> NoCt]
        ELSE [ret |-> "Ok", session |-> counted, aead |-> TRUE, frame |-> ct]

\* a write that seals the buffer before it checks the length
write_checking_after_seal(session, message) ==
    LET ct == Seal(session.write_key, session.write_nonce, <<>>, message)
        next_nonce == checked_add_1(session.write_nonce)
    IN  IF ~session.valid
        THEN [ret |-> "SessionClosed", session |-> session, aead |-> FALSE, frame |-> NoCt]
        ELSE IF message.len > MAX_SIZE_NOISE_MSG - AES_GCM_TAGLEN
        THEN [ret |-> "PayloadTooLarge", session |-> session, aead |-> TRUE, frame |-> NoCt]
        ELSE IF next_nonce < 0
        THEN [ret |-> "NonceOverflow", session |-> session, aead |-> TRUE, frame |-> NoCt]
        ELSE [ret |-> "Ok",
              session |-> [session EXCEPT !.write_nonce = next_nonce],
              aead |-> TRUE, frame |-> ct]

\* a session with one counter for both directions: a write advances both
write_with_one_counter(session, message) ==
    LET ct == Seal(session.write_key, session.write_nonce, <<>>, message)
        next_nonce == checked_add_1(session.write_nonce)
    IN  IF ~session.valid
        THEN [ret |-> "SessionClosed", session |-> session, aead |-> FALSE, frame |-> NoCt]
        ELSE IF message.len > MAX_SIZE_NOISE_MSG - AES_GCM_TAGLEN
        THEN [ret |-> "PayloadTooLarge", session |-> session, aead |-> FALSE, frame |-> NoCt]
        ELSE IF next_nonce < 0
        THEN [ret |-> "NonceOverflow", session |-> session, aead |-> TRUE, frame |-> NoCt]
        ELSE [ret |-> "Ok",
              session |-> [session EXCEPT !.write_nonce = next_nonce,
                                          !.read_nonce = next_nonce],
              aead |-> TRUE, frame |-> ct]

\* a write that bounds the plaintext by the size of a whole message
write_bounding_plaintext_only(session, message) ==
    LET ct == Seal(session.write_key, session.write_nonce, <<>>, message)
        next_nonce == checked_add_1(session.write_nonce)
    IN  IF ~session.valid
        THEN [ret |-> "SessionClosed", session |-> session, aead |-> FALSE, frame |-> NoCt]
        ELSE IF message.len > MAX_SIZE_NOISE_MSG
        THEN [ret |-> "PayloadTooLarge", session |-> session, aead |-> FALSE, frame |-> NoCt]
        ELSE IF next_nonce < 0
        THEN [ret |-> "NonceOverflow", session |-> session, aead |-> TRUE, frame |-> NoCt]
        ELSE [ret |-> "Ok",
              session |-> [session EXCEPT !.write_nonce = next_nonce],
              aead |-> TRUE, frame |-> ct]

(***************************************************************************)
(* NoiseSession::write_message_in_place.  frame is the encrypted buffer    *)
(* followed by the returned tag; aead tells whether the call sealed.       *)
(***************************************************************************)
write_message_in_place(session, message) ==
    LET ct == Seal(session.write_key, session.write_nonce, <<>>, message)
        next_nonce == checked_add_1(session.write_nonce)
    IN  IF ~session.valid
        THEN [ret |-> "SessionClosed", session |-> session, aead |-> FALSE, frame |-> NoCt]
        ELSE IF message.len > MAX_SIZE_NOISE_MSG - AES_GCM_TAGLEN
        THEN [ret |-> "PayloadTooLarge", session |-> session, aead |-> FALSE, frame |-> NoCt]
        ELSE IF next_nonce < 0
        THEN [ret |-> "NonceOverflow", session |-> session, aead |-> TRUE, frame |-> NoCt]
        ELSE [ret |-> "Ok",
              session |-> [session EXCEPT !.write_nonce = next_nonce],
              aead |-> TRUE, frame |-> ct]

\* a read that returns the Decrypt error without closing the session
read_keeping_valid(session, buf) ==
    LET closed == [session EXCEPT !.valid = FALSE]
        next_nonce == checked_add_1(session.read_nonce)
    IN  IF ~session.valid
        THEN [ret |-> "SessionClosed", session |-> session, aead |-> FALSE, out |-> NoPlain]
        ELSE IF buf.len > MAX_SIZE_NOISE_MSG
        THEN [ret |-> "ReceivedMsgTooLarge", session |-> closed, aead |-> FALSE, out |-> NoPlain]
        ELSE IF buf.len < AES_GCM_TAGLEN
        THEN [ret |-> "ResponseBufferTooSmall", session |-> closed, aead |-> FALSE, out |-> NoPlain]
        ELSE IF ~CanOpen(session.read_key, session.read_nonce, <<>>, buf.ct)
        THEN [ret |-> "Decrypt", session |-> session, aead |-> TRUE, out |-> NoPlain]
        ELSE IF next_nonce < 0
        THEN [ret |-> "NonceOverflow", session |-> session, aead |-> TRUE, out |-> NoPlain]
        ELSE [ret |-> "Ok",
              session |-> [session EXCEPT !.read_nonce = next_nonce],
              aead |-> TRUE, out |-> buf.ct.pt]

\* a read that takes the nonce from the frame instead of its own counter
read_with_frame_nonce(session, buf) ==
    LET closed == [session EXCEPT !.valid = FALSE]
        next_nonce == checked_add_1(session.read_nonce)
    IN  IF ~session.valid
        THEN [ret |-> "SessionClosed", session |-> session, aead |-> FALSE, out |-> NoPlain]
        ELSE IF buf.len > MAX_SIZE_NOISE_MSG
        THEN [ret |-> "ReceivedMsgTooLarge", session |-> closed, aead |-> FALSE, out |-> NoPlain]
        ELSE IF buf.len < AES_GCM_TAGLEN
        THEN [ret |-> "ResponseBufferTooSmall", session |-> closed, aead |-> FALSE, out |-> NoPlain]
        ELSE IF ~CanOpen(session.read_key, buf.ct.nonce, <<>>, buf.ct)
        THEN [ret |-> "Decrypt", session |-> closed, aead |-> TRUE, out |-> NoPlain]
        ELSE IF next_nonce < 0
        THEN [ret |-> "NonceOverflow", session |-> session, aead |-> TRUE, out |-> NoPlain]
        ELSE [ret |-> "Ok",
              session |-> [session EXCEPT !.read_nonce = next_nonce],
              aead |-> TRUE, out |-> buf.ct.pt]

\* a read that closes the session on a failed decryption only
read_closing_on_decrypt_only(session, buf) ==
    LET closed == [session EXCEPT !.valid = FALSE]
        next_nonce == checked_add_1(session.read_nonce)
    IN  IF ~session.valid
        THEN [ret |-> "SessionClosed", session |-> session, aead |-> FALSE, out |-> NoPlain]
        ELSE IF buf.len > MAX_SIZE_NOISE_MSG
        THEN [ret |-> "ReceivedMsgTooLarge", session |-> session, aead |-> FALSE, out |-> NoPlain]
        ELSE IF buf.len < AES_GCM_TAGLEN
        THEN [ret |-> "ResponseBufferTooSmall", session |-> session, aead |-> FALSE, out |-> NoPlain]
        ELSE IF ~CanOpen(session.read_key, session.read_nonce, <<>>, buf.ct)
        THEN [ret |-> "Decrypt", session |-> closed, aead |-> TRUE, out |-> NoPlain]
        ELSE IF next_nonce < 0
        THEN [ret |-> "NonceOverflow", session |-> session, aead |-> TRUE, out |-> NoPlain]
        ELSE [ret |-> "Ok",
              session |-> [session EXCEPT !.read_nonce = next_nonce],
              aead |-> TRUE, out |-> buf.ct.pt]

\* a read that counts every buffer it tries to open, authentic or not
read_counting_rejected(session, buf) ==
    LET closed == [session EXCEPT !.valid = FALSE]
        next_nonce == checked_add_1(session.read_nonce)
    IN  IF ~session.valid
        THEN [ret |-> "SessionClosed", session |-> session, aead |-> FALSE, out |-> NoPlain]
        ELSE IF buf.len > MAX_SIZE_NOISE_MSG
        THEN [ret |-> "ReceivedMsgTooLarge", session |-> closed, aead |-> FALSE, out |-> NoPlain]
        ELSE IF buf.len < AES_GCM_TAGLEN
        THEN [ret |-> "ResponseBufferTooSmall", session |-> closed, aead |-> FALSE, out |-> NoPlain]
        ELSE IF next_nonce < 0
        THEN [ret |-> "NonceOverflow", session |-> session, aead |-> TRUE, out |-> NoPlain]
        ELSE IF ~CanOpen(session.read_key, session.read_nonce, <<>>, buf.ct)
        THEN [ret |-> "Decrypt", session |-> [session EXCEPT !.read_nonce = next_nonce],
              aead |-> TRUE, out |-> NoPlain]
        ELSE [ret |-> "Ok",
              session |-> [session EXCEPT !.read_nonce = next_nonce],
              aead |-> TRUE, out |-> buf.ct.pt]

(***************************************************************************)
(* NoiseSession::read_message_in_place.  buf is the received buffer: its   *)
(* length and the ciphertext (with tag) it holds.                          *)
(***************************************************************************)
read_message_in_place(session, buf) ==
    LET closed == [session EXCEPT !.valid = FALSE]
        next_nonce == checked_add_1(session.read_nonce)
    IN  IF ~session.valid
        THEN [ret |-> "SessionClosed", session |-> session, aead |-> FALSE, out |-> NoPlain]
        ELSE IF buf.len > MAX_SIZE_NOISE_MSG
        THEN [ret |-> "ReceivedMsgTooLarge", session |-> closed, aead |-> FALSE, out |-> NoPlain]
        ELSE IF buf.len < AES_GCM_TAGLEN
        THEN [ret |-> "ResponseBufferTooSmall", session |-> closed, aead |-> FALSE, out |-> NoPlain]
        ELSE IF ~CanOpen(session.read_key, session.read_nonce, <<>>, buf.ct)
        THEN [ret |-> "Decrypt", session |-> closed, aead |-> TRUE, out |-> NoPlain]
        ELSE IF next_nonce < 0
        THEN [ret |-> "NonceOverflow", session |-> session, aead |-> TRUE, out |-> NoPlain]
        ELSE [ret |-> "Ok",
              session |-> [session EXCEPT !.read_nonce = next_nonce],
              aead |-> TRUE, out |-> buf.ct.pt]

(***************************************************************************)
(* The network.  A message reaches its reader unmodified, with one bit     *)
(* flipped, cut short or with bytes appended.                              *)
(***************************************************************************)
Damaged(ct) == [ct EXCEPT !.intact = FALSE]
FlipHi(pk) == [pk EXCEPT !.hi = 1 - pk.hi]
FlipLow(pk) == [pk EXCEPT !.key = FlipPoint(pk.key)]

\* variations that flip exactly one bit
BitFlips == {"flip_e_hi", "flip_e", "flip_s", "flip_p"}
InitVariations == {"none", "flip_e_hi", "flip_e", "flip_s", "flip_p",
                   "cut_e", "cut_s", "cut_p", "pad", "pad_big"}
RespVariations == {"none", "flip_e_hi", "flip_e", "flip_p",
                   "cut_e", "cut_p", "pad", "pad_big"}
FrameVariations == {"none", "flip_p", "cut_tag", "pad_big"}

VaryInit(m, v) ==
    CASE v = "none" -> m
      [] v = "flip_e_hi" -> [m EXCEPT !.e = FlipHi(m.e)]
      [] v = "flip_e" -> [m EXCEPT !.e = FlipLow(m.e)]
      [] v = "flip_s" -> [m EXCEPT !.s = Damaged(m.s)]
      [] v = "flip_p" -> [m EXCEPT !.p = Damaged(m.p)]
      [] v = "cut_e" -> [m EXCEPT !.len = X25519_LEN - 1, !.s = Damaged(m.s), !.p = Damaged(m.p)]
      [] v = "cut_s" -> [m EXCEPT !.len = X25519_LEN + encrypted_len(X25519_LEN) - 1,
                                  !.s = Damaged(m.s), !.p = Damaged(m.p)]
      [] v = "cut_p" -> [m EXCEPT !.len = m.len - 1, !.p = Damaged(m.p)]
      [] v = "pad" -> [m EXCEPT !.len = m.len + 1, !.p = Damaged(m.p)]
      [] v = "pad_big" -> [m EXCEPT !.len = MAX_SIZE_NOISE_MSG + 1, !.p = Damaged(m.p)]

VaryResp(m, v) ==
    CASE v = "none" -> m
      [] v = "flip_e_hi" -> [m EXCEPT !.e = FlipHi(m.e)]
      [] v = "flip_e" -> [m EXCEPT !.e = FlipLow(m.e)]
      [] v = "flip_p" -> [m EXCEPT !.p = Damaged(m.p)]
      [] v = "cut_e" -> [m EXCEPT !.len = X25519_LEN - 1, !.p = Damaged(m.p)]
      [] v = "cut_p" -> [m EXCEPT !.len = m.len - 1, !.p = Damaged(m.p)]
      [] v = "pad" -> [m EXCEPT !.len = m.len + 1, !.p = Damaged(m.p)]
      [] v = "pad_big" -> [m EXCEPT !.len = MAX_SIZE_NOISE_MSG + 1, !.p = Damaged(m.p)]

\* the buffer a reader is handed for frame ct
VaryFrame(ct, v) ==
    LET len == encrypted_len(ct.pt.len) IN
    CASE v = "none" -> [len |-> len, ct |-> ct]
      [] v = "flip_p" -> [len |-> len, ct |-> Damaged(ct)]
      [] v = "cut_tag" -> [len |-> AES_GCM_TAGLEN - 1, ct |-> Damaged(ct)]
      [] v = "pad_big" -> [len |-> MAX_SIZE_NOISE_MSG + 1, ct |-> Damaged(ct)]

(***************************************************************************)
(* Inputs of the callers.                                                  *)
(***************************************************************************)
\* Transport::handshake: prologue = our_peer_id | remote_public_key
Prologue(peer_id, remote) == <<"prologue", peer_id, remote>>
\* Transport::handshake sends the 8-byte timestamp as payload
InitPayload == Data(0, TIMESTAMP_SIZE)
\* the responder answers with no payload (None)
RespPayload == Data(0, 0)
\* response buffers: one byte short of the response, and its exact size
BufLens == {handshake_resp_msg_len(RespPayload.len) - 1,
            handshake_resp_msg_len(RespPayload.len)}
\* the n-th application message of an end, and one a byte too long to send
AppMsgs(n) == {Data(n, MsgLen),
               Data(n, MAX_SIZE_NOISE_MSG - AES_GCM_TAGLEN + 1)}

(***************************************************************************)
(* network/handshake.rs.  A byte of a ProtocolIdSet is the set of its bits *)
(* that are 1 (bit 0 the least significant): & is the intersection, | the  *)
(* union and 0 the empty set.                                              *)
(***************************************************************************)
\* ProtocolId discriminants
ConsensusRpcBcs == 0
StorageServiceRpc == 8
ConsensusObserverRpc == 28
ProtocolIds == {ConsensusRpcBcs, StorageServiceRpc}
\* ProtocolId::all: the enum declares every discriminant from 0 to 28
ProtocolId_all == ConsensusRpcBcs..ConsensusObserverRpc

\* MessagingProtocolVersion by ordinal.  The enum declares V1 = 0 only; the
\* scan of perform_handshake is written for whatever the enum declares, and
\* is modelled for the ordinals 0..MaxVersion.
V1 == 0
MessagingProtocolVersion == V1..MaxVersion

MAINNET == 1
TESTNET == 2
ChainIds == {MAINNET, TESTNET}
NetworkIds == {"Public", "Validator"}

ZeroByte == {}
\* ProtocolIdSet::empty
empty == <<>>

\* an insert that assigns the bit to the byte, where the code ors it in
insert_assigning(set, protocol) ==
    LET byte_idx == protocol \div 8
        bit_idx == protocol % 8
        resized == IF byte_idx >= Len(set)
                   THEN [i \in 1..(byte_idx + 1) |->
                            IF i <= Len(set) THEN set[i] ELSE ZeroByte]
                   ELSE set
    IN  [resized EXCEPT ![byte_idx + 1] = {bit_idx}]

\* ProtocolIdSet::insert
insert(set, protocol) ==
    LET byte_idx == protocol \div 8
        bit_idx == protocol % 8
        resized == IF byte_idx >= Len(set)
                   THEN [i \in 1..(byte_idx + 1) |->
                            IF i <= Len(set) THEN set[i] ELSE ZeroByte]
                   ELSE set
    IN  [resized EXCEPT ![byte_idx + 1] = @ \cup {bit_idx}]

\* ProtocolIdSet::contains
contains(set, protocol) ==
    LET byte_idx == protocol \div 8
        bit_idx == protocol % 8
    IN  IF byte_idx < Len(set) THEN set[byte_idx + 1] \cap {bit_idx} # ZeroByte
        ELSE FALSE

\* an intersect that keeps the bytes of the first operand
intersect_keeping_self(self, other) ==
    LET len == IF Len(self) <= Len(other) THEN Len(self) ELSE Len(other)
    IN  [i \in 1..len |-> self[i]]

\* ProtocolIdSet::intersect
intersect(self, other) ==
    LET len == IF Len(self) <= Len(other) THEN Len(self) ELSE Len(other)
    IN  [i \in 1..len |-> self[i] \cap other[i]]

\* ProtocolIdSet::is_empty
is_empty(set) == \A i \in 1..Len(set) : set[i] = ZeroByte

\* FromIterator<ProtocolId> for ProtocolIdSet, the ids taken in ascending order
RECURSIVE from_iter(_)
from_iter(ids) ==
    IF ids = {} THEN empty
    ELSE LET p == CHOOSE x \in ids : \A y \in ids : y <= x
         IN  insert(from_iter(ids \ {p}), p)

\* HandshakeMsg::new
HandshakeMsg_new(chain_id, network_id) ==
    [supported_protocols |-> (V1 :> insert(empty, StorageServiceRpc)),
     chain_id |-> chain_id,
     network_id |-> network_id]

NoVersion == 0 - 1
HandshakeErr(e) == [ret |-> e, version |-> NoVersion, protocols |-> empty]
NotNegotiated == HandshakeErr("none")

\* the same loop from the lowest version to the highest
RECURSIVE scan_lowest_first(_, _, _)
scan_lowest_first(self, other, left) ==
    IF left = {} THEN HandshakeErr("No common protocols")
    ELSE LET v == CHOOSE x \in left : \A w \in left : x <= w
             common == IF v \in DOMAIN other.supported_protocols
                       THEN intersect(self.supported_protocols[v],
                                      other.supported_protocols[v])
                       ELSE empty
         IN  IF ~is_empty(common)
             THEN [ret |-> "Ok", version |-> v, protocols |-> common]
             ELSE scan_lowest_first(self, other, left \ {v})

\* the loop of perform_handshake over the versions of self not yet visited,
\* a scan that returns the protocols of self for the version it settles on
RECURSIVE scan_returning_ours(_, _, _)
scan_returning_ours(self, other, left) ==
    IF left = {} THEN HandshakeErr("No common protocols")
    ELSE LET our_handshake_version == CHOOSE v \in left : \A w \in left : w <= v
             our_protocols == self.supported_protocols[our_handshake_version]
         IN  IF our_handshake_version \in DOMAIN other.supported_protocols
                /\ ~is_empty(intersect(our_protocols,
                                       other.supported_protocols[our_handshake_version]))
             THEN [ret |-> "Ok", version |-> our_handshake_version,
                   protocols |-> our_protocols]
             ELSE scan_returning_ours(self, other, left \ {our_handshake_version})

\* highest first (BTreeMap::iter().rev())
RECURSIVE scan_versions(_, _, _)
scan_versions(self, other, left) ==
    IF left = {} THEN HandshakeErr("No common protocols")
    ELSE LET our_handshake_version == CHOOSE v \in left : \A w \in left : w <= v
             our_protocols == self.supported_protocols[our_handshake_version]
         IN  IF our_handshake_version \in DOMAIN other.supported_protocols
             THEN LET their_protocols ==
                          other.supported_protocols[our_handshake_version]
                      common_protocols == intersect(our_protocols, their_protocols)
                  IN  IF ~is_empty(common_protocols)
                      THEN [ret |-> "Ok", version |-> our_handshake_version,
                            protocols |-> common_protocols]
                      ELSE scan_versions(self, other,
                                         left \ {our_handshake_version})
             ELSE scan_versions(self, other, left \ {our_handshake_version})

\* a perform_handshake that does not compare the chain ids
perform_handshake_any_chain(self, other) ==
    IF self.network_id # other.network_id THEN HandshakeErr("Invalid NetworkId")
    ELSE scan_versions(self, other, DOMAIN self.supported_protocols)

\* a perform_handshake that returns the first common version, empty or not
perform_handshake_first_common(self, other) ==
    LET both == DOMAIN self.supported_protocols \cap DOMAIN other.supported_protocols
        v == CHOOSE x \in both : \A y \in both : y <= x
    IN  IF self.chain_id # other.chain_id THEN HandshakeErr("Invalid ChainId")
        ELSE IF self.network_id # other.network_id THEN HandshakeErr("Invalid NetworkId")
        ELSE IF both = {} THEN HandshakeErr("No common protocols")
        ELSE [ret |-> "Ok", version |-> v,
              protocols |-> intersect(self.supported_protocols[v],
                                      other.supported_protocols[v])]

\* HandshakeMsg::perform_handshake
perform_handshake(self, other) ==
    IF self.chain_id # other.chain_id THEN HandshakeErr("Invalid ChainId")
    ELSE IF self.network_id # other.network_id THEN HandshakeErr("Invalid NetworkId")
    ELSE scan_versions(self, other, DOMAIN self.supported_protocols)

\* the protocol sets a node builds with insert
BuiltSets == {from_iter(ids) : ids \in SUBSET ProtocolIds}
\* the protocol sets a peer may send: the same, also with a trailing zero byte
ReceivedSets == BuiltSets \cup {Append(set, ZeroByte) : set \in BuiltSets}
\* maps from some of the versions to protocol sets
ProtocolMaps(sets) ==
    UNION {[vs -> sets] : vs \in SUBSET MessagingProtocolVersion}
\* the HandshakeMsgs of this node (connect_to_peer: MAINNET, Public)
OurHandshakes ==
    {[supported_protocols |-> m, chain_id |-> MAINNET, network_id |-> "Public"] :
        m \in ProtocolMaps(BuiltSets)}
\* the HandshakeMsgs a peer may send
TheirHandshakes ==
    {[supported_protocols |-> m, chain_id |-> c, network_id |-> n] :
        m \in ProtocolMaps(ReceivedSets), c \in ChainIds, n \in NetworkIds}

(***************************************************************************)
(* NoiseStream of network/transport.rs.  The inner stream is a sequence of *)
(* items: a 4-byte big-endian length prefix and the bytes sent after it    *)
(* for that prefix (body: one buffer, or none).                            *)
(***************************************************************************)
LEN_PREFIX_SIZE == 4
\* a frame: the prefix declares the length of the buffer that follows
FrameItem(buf) == [prefix |-> buf.len, body |-> <<buf.ct>>]
\* a prefix alone; what follows it on the stream is whatever is sent next.
\* A prefix above the maximum is always sent alone.
BarePrefix(n) == [prefix |-> n, body |-> <<>>]
\* declared lengths above the maximum: by one, and 10 million
OversizeLens == {MAX_SIZE_NOISE_MSG + 1, 10000000}

\* a call on the NoiseStream: the anyhow error (ret), the NoiseError inside
\* it (cause), the declared length read, whether the payload buffer was
\* allocated, and the length and payload bytes read from the inner stream
\* for a write: the length declared, the bytes of the prefix and of the buffer
\* the inner stream took, and whether it was flushed
StreamCall(op, ret, cause, declared, allocated, length_bytes, payload_bytes, flush, out) ==
    [op |-> op, ret |-> ret, cause |-> cause, declared |-> declared,
     allocated |-> allocated, length_bytes |-> length_bytes,
     payload_bytes |-> payload_bytes, flushed |-> flush, out |-> out]
NoStreamCall == StreamCall("new", "Ok", "Ok", 0, FALSE, 0, 0, FALSE, NoPlain)

\* a read_message without the check of the declared length
read_message_unchecked(session, input) ==
    LET len == Head(input).prefix
        buffer == IF Head(input).body = <<>> THEN NoCt ELSE Head(input).body[1]
        r == read_message_in_place(session, [len |-> len, ct |-> buffer])
    IN  [ret |-> IF r.ret = "Ok" THEN "Ok" ELSE "Decrypt failed",
         cause |-> r.ret, session |-> r.session, rest |-> Tail(input),
         declared |-> len, allocated |-> TRUE,
         length_bytes |-> LEN_PREFIX_SIZE, payload_bytes |-> len, out |-> r.out]

\* NoiseStream::read_message on an inner stream holding input
read_message(session, input) ==
    LET len == Head(input).prefix
        buffer == Head(input).body[1]
        r == read_message_in_place(session, [len |-> len, ct |-> buffer])
    IN  IF len > MAX_SIZE_NOISE_MSG
        THEN [ret |-> "Message too large", cause |-> "none", session |-> session,
              rest |-> Tail(input),
              declared |-> len, allocated |-> FALSE,
              length_bytes |-> LEN_PREFIX_SIZE, payload_bytes |-> 0,
              out |-> NoPlain]
        ELSE [ret |-> IF r.ret = "Ok" THEN "Ok" ELSE "Decrypt failed",
              cause |-> r.ret, session |-> r.session, rest |-> Tail(input),
              declared |-> len, allocated |-> TRUE,
              length_bytes |-> LEN_PREFIX_SIZE, payload_bytes |-> len,
              out |-> r.out]

\* a call through AsyncRead or AsyncWrite: the length of the caller's buffer,
\* the number returned and the bytes copied into the caller's buffer
Poll(op, len, ret, out) == [op |-> op, len |-> len, ret |-> ret, out |-> out]
NoPoll == Poll("new", 0, 0, <<>>)

\* AsyncRead::poll_read of NoiseStream into a buffer of len bytes: the number
\* returned, the new read_pos, the bytes copied and the bytes taken from
\* the inner stream
poll_read(buffer, pos, len) ==
    IF pos < Len(buffer)
    THEN LET available == Len(buffer) - pos
             to_copy == IF available < len THEN available ELSE len
         IN  [ret |-> to_copy, read_pos |-> pos + to_copy,
              out |-> SubSeq(buffer, pos + 1, pos + to_copy), taken |-> 0]
    ELSE [ret |-> 0, read_pos |-> pos, out |-> <<>>, taken |-> 0]

\* a poll_write that hands the caller's bytes to the inner stream
poll_write_forwarding(session, buf) ==
    [ret |-> buf.len, session |-> session,
     written |-> <<[prefix |-> buf.len, body |-> <<buf>>]>>]

\* AsyncWrite::poll_write of NoiseStream: the number returned, the session
\* and what the inner stream is given
poll_write(session, buf) ==
    [ret |-> buf.len, session |-> session, written |-> <<>>]

\* the inner stream of a NoiseStream, as a write sees it: the bytes it takes
\* before a write fails (NoLimit: it takes all) and whether a flush succeeds
NoLimit == 0 - 1
InnerStream(takes, flush) == [takes |-> takes, flush |-> flush]
SoundStream == InnerStream(NoLimit, TRUE)
\* the inner streams of a write: sound, failing at the flush, or failing
\* before, within or after the prefix or within the buffer
InnerStreams ==
    {SoundStream, InnerStream(NoLimit, FALSE)}
       \cup {InnerStream(n, TRUE) :
                n \in {0, LEN_PREFIX_SIZE - 1, LEN_PREFIX_SIZE, LEN_PREFIX_SIZE + 1}}
\* AsyncWriteExt::write_all of len bytes on a stream that takes takes more
\* bytes: the bytes written; the call fails when they are fewer than len
write_all(takes, len) == IF takes = NoLimit \/ takes >= len THEN len ELSE takes

\* a write_message that does not look at the outcome of the flush
write_message_ignoring_flush(session, payload, inner) ==
    LET r == write_message_in_place(session, payload)
        buffer_len == payload.len + AES_GCM_TAGLEN
        length_bytes == write_all(inner.takes, LEN_PREFIX_SIZE)
        left == IF inner.takes = NoLimit THEN NoLimit ELSE inner.takes - length_bytes
        payload_bytes == IF length_bytes < LEN_PREFIX_SIZE THEN 0
                         ELSE write_all(left, buffer_len)
        complete == length_bytes = LEN_PREFIX_SIZE /\ payload_bytes = buffer_len
    IN  IF r.ret # "Ok"
        THEN [ret |-> "Encrypt failed", cause |-> r.ret, session |-> r.session,
              aead |-> r.aead, frame |-> NoCt, written |-> <<>>, declared |-> 0,
              length_bytes |-> 0, payload_bytes |-> 0, flushed |-> FALSE]
        ELSE [ret |-> IF complete THEN "Ok" ELSE "io error",
              cause |-> r.ret, session |-> r.session,
              aead |-> r.aead, frame |-> r.frame,
              written |-> IF complete
                          THEN <<FrameItem([len |-> buffer_len, ct |-> r.frame])>>
                          ELSE IF length_bytes = LEN_PREFIX_SIZE
                          THEN <<BarePrefix(buffer_len)>> ELSE <<>>,
              declared |-> buffer_len,
              length_bytes |-> length_bytes, payload_bytes |-> payload_bytes,
              flushed |-> complete /\ inner.flush]

\* NoiseStream::write_message on the inner stream inner
write_message(session, payload, inner) ==
    LET r == write_message_in_place(session, payload)
        \* buffer.extend_from_slice(&tag); len = buffer.len() as u32
        buffer_len == payload.len + AES_GCM_TAGLEN
        \* write_all(&len.to_be_bytes())
        length_bytes == write_all(inner.takes, LEN_PREFIX_SIZE)
        left == IF inner.takes = NoLimit THEN NoLimit ELSE inner.takes - length_bytes
        \* write_all(&buffer), reached when the prefix was written
        payload_bytes == IF length_bytes < LEN_PREFIX_SIZE THEN 0
                         ELSE write_all(left, buffer_len)
        complete == length_bytes = LEN_PREFIX_SIZE /\ payload_bytes = buffer_len
        \* flush(), reached when the buffer was written
        flush == complete /\ inner.flush
    IN  IF r.ret # "Ok"
        THEN [ret |-> "Encrypt failed", cause |-> r.ret, session |-> r.session,
              aead |-> r.aead, frame |-> NoCt, written |-> <<>>, declared |-> 0,
              length_bytes |-> 0, payload_bytes |-> 0, flushed |-> FALSE]
        ELSE [ret |-> IF flush THEN "Ok" ELSE "io error",
              cause |-> r.ret, session |-> r.session,
              aead |-> r.aead, frame |-> r.frame,
              \* what the inner stream holds of the frame: all of it, its
              \* prefix alone, or less
              written |-> IF complete
                          THEN <<FrameItem([len |-> buffer_len, ct |-> r.frame])>>
                          ELSE IF length_bytes = LEN_PREFIX_SIZE
                          THEN <<BarePrefix(buffer_len)>> ELSE <<>>,
              declared |-> buffer_len,
              length_bytes |-> length_bytes, payload_bytes |-> payload_bytes,
              flushed |-> flush]

(***************************************************************************)
(* Transport::handshake of network/transport.rs.  The stream carries runs   *)
(* of bytes: what a run holds, its length and its value.                    *)
(***************************************************************************)
PEER_ID_LEN == 32
PROLOGUE_SIZE == PEER_ID_LEN + 32
SERVER_MESSAGE_SIZE == 48

Bytes(what, len, val) == [what |-> what, len |-> len, val |-> val]
RECURSIVE Size(_)
Size(runs) == IF runs = <<>> THEN 0 ELSE Head(runs).len + Size(Tail(runs))

\* a client message that is the Noise message alone
client_message_without_prologue(our_peer_id, remote_public_key, noise_msg) ==
    <<Bytes("noise_msg", noise_msg.len, noise_msg)>>

\* client_message: our_peer_id, remote_public_key.as_bytes(), noise_msg
client_message(our_peer_id, remote_public_key, noise_msg) ==
    <<Bytes("our_peer_id", PEER_ID_LEN, our_peer_id),
      Bytes("remote_public_key", X25519_LEN, remote_public_key),
      Bytes("noise_msg", noise_msg.len, noise_msg)>>

\* the response side of the stream: len unread bytes, the first
\* SERVER_MESSAGE_SIZE of them holding msg; taken counts the bytes the
\* initiator has read; closed tells that the server will write no more
Response(len, msg, taken, closed) ==
    [len |-> len, msg |-> msg, taken |-> taken, closed |-> closed]
NoResponse == Response(0, NoRespMsg, 0, FALSE)

\* AsyncReadExt::read in place of read_exact: returns what is there
read_available(stream, n) ==
    LET got == IF stream.len < n THEN stream.len ELSE n
    IN  [ret |-> "Ok", bytes |-> got, buf |-> [stream.msg EXCEPT !.len = got],
         rest |-> Response(stream.len - got, NoRespMsg, stream.taken + got,
                           stream.closed)]

\* AsyncReadExt::read_exact of n bytes, on a stream that holds n bytes or
\* is closed
read_exact(stream, n) ==
    IF stream.len < n
    THEN [ret |-> "Failed to read server response", bytes |-> stream.len,
          buf |-> NoRespMsg,
          rest |-> Response(0, NoRespMsg, stream.taken + stream.len,
                            stream.closed)]
    ELSE [ret |-> "Ok", bytes |-> n, buf |-> stream.msg,
          rest |-> Response(stream.len - n, NoRespMsg, stream.taken + n,
                            stream.closed)]

\* a call of Transport::handshake: what it called, what it got back, and
\* the bytes that moved on the stream
HsCall(op, ret, bytes) == [op |-> op, ret |-> ret, bytes |-> bytes]
\* the calls of Transport::handshake in program order
HandshakeOrder == <<"initiate_connection", "write_all", "flush", "read_exact",
                    "finalize_connection">>

(***************************************************************************)
(* Network::connect_to_peer of network/network.rs.  bcs::to_bytes gives    *)
(* bytes that identify the type and the value they encode; bcs::from_bytes *)
(* of a type succeeds on the encodings of that type and on no other bytes. *)
(***************************************************************************)
RECURSIVE MapLen(_, _)
\* bcs length of the entries of a BTreeMap<MessagingProtocolVersion, ProtocolIdSet>
MapLen(m, left) ==
    IF left = {} THEN 0
    ELSE LET v == CHOOSE x \in left : TRUE
         IN  1 + 1 + Len(m[v]) + MapLen(m, left \ {v})

\* bcs::to_bytes(&HandshakeMsg)
HandshakeMsg_to_bytes(msg) ==
    Plain(<<"HandshakeMsg", msg>>,
          1 + MapLen(msg.supported_protocols, DOMAIN msg.supported_protocols) + 1 + 1)

\* bcs::to_bytes(&StorageServiceRequest::new(GetStorageServerSummary, false))
StorageServiceRequest_to_bytes ==
    Plain(<<"StorageServiceRequest", "GetStorageServerSummary">>, 1 + 1)

\* the bytes of some StorageServiceResponseWrapper
StorageServiceResponse_to_bytes ==
    Plain(<<"StorageServiceResponseWrapper", "StorageServerSummary">>, MsgLen)

\* a decoder that reads any bytes as the HandshakeMsg of HandshakeMsg::new
from_bytes_any(type, bytes) ==
    IF bytes.id[1] = type THEN [ret |-> "Ok", value |-> bytes.id[2]]
    ELSE [ret |-> "Ok", value |-> HandshakeMsg_new(MAINNET, "Public")]

\* bcs::from_bytes::<type>(bytes)
from_bytes(type, bytes) ==
    IF bytes.id[1] = type THEN [ret |-> "Ok", value |-> bytes.id[2]]
    ELSE [ret |-> "bcs error", value |-> bytes.id[2]]

\* a call connect_to_peer made: the call, what its payload or result was,
\* and what it returned
ConnCall(op, what, ret) == [op |-> op, what |-> what, ret |-> ret]

\* a call: operation, end, returned value, whether it ran the AEAD, how the
\* network varied its input, whether the frame handed to a read was the next
\* one the peer produced, the plaintext returned
Call(op, slot, ret, aead, var, next, out) ==
    [op |-> op, slot |-> slot, ret |-> ret, aead |-> aead, var |-> var,
     next |-> next, out |-> out]

\* the two configs, up to the naming of the key pairs: the initiator holds
\* the first pair, the responder the same pair or another
Configs == {c \in [Slots -> StaticKeys] : c["ini"] = CHOOSE k \in StaticKeys : TRUE}

NoDerived == [used |-> 0, n |-> 0, failed |-> FALSE, after_failure |-> FALSE]

\* crypto/noise.rs before any call
InitNoise ==
    /\ cfg \in Configs
    /\ rng = 0
    /\ ihs = NoIhs /\ ihs_n = 0
    /\ rhs = NoRhs /\ rhs_n = 0
    /\ msg1 = NoInitMsg
    /\ msg2 = {}
    /\ sess = [s \in Slots |-> NoSession]
    /\ wire = [s \in Slots |-> <<>>]
    /\ sealed = [s \in Slots |-> {}]
    /\ reused = [s \in Slots |-> FALSE]
    /\ derived = [s \in Slots |-> NoDerived]
    /\ accepted = [s \in Slots |-> 0]
    /\ crypto_err = [s \in Slots |-> FALSE]
    /\ last = Call("new", "ini", "Ok", FALSE, "none", FALSE, NoPlain)

\* network/handshake.rs before any message was received: both HandshakeMsgs
\* are the one connect_to_peer builds
NegotiationIdle ==
    /\ our_handshake = HandshakeMsg_new(MAINNET, "Public")
    /\ their_handshake = HandshakeMsg_new(MAINNET, "Public")
    /\ negotiated = NotNegotiated

\* no NoiseStream yet
StreamIdle ==
    /\ inbound = <<>>
    /\ outbound = <<>>
    /\ io = NoStreamCall
    /\ rejected = 0
    /\ ok_after_reject = FALSE
    /\ read_buffer = <<>>
    /\ read_pos = 0
    /\ polled = NoPoll

\* Transport::handshake not yet called
TransportIdle ==
    /\ hs_pc = "connect"
    /\ sent = <<>>
    /\ flushed = FALSE
    /\ server = "listening"
    /\ response = NoResponse
    /\ server_response = NoRespMsg
    /\ trace = <<>>
    /\ returned = "none"

\* Network::connect_to_peer not yet called
ConnectIdle ==
    /\ conn_pc = "connect"
    /\ conn_log = <<>>

\* no task has called Transport::connect
ConcurrentIdle == conns = <<>>
\* no ProtocolIdSet yet
SetsIdle == set_a = <<>> /\ set_b = <<>> /\ meet = <<>> /\ inserted = {}

UpperIdle ==
    NegotiationIdle /\ StreamIdle /\ TransportIdle /\ ConnectIdle /\ ConcurrentIdle /\ SetsIdle

Init == InitNoise /\ UpperIdle

\* Transport::handshake, first half: the initiator builds the first message
InitiateWith(payload) ==
    /\ msg1 = NoInitMsg
    /\ \E remote \in StaticKeys :
          LET r == initiate_connection(cfg["ini"], Ephemeral(rng),
                                       Prologue(cfg["ini"], remote),
                                       PublicKeyOf(remote), payload)
          IN  /\ ihs' = r.state
              /\ ihs_n' = 1
              /\ msg1' = r.msg
              /\ rng' = rng + 1
              /\ last' = Call("initiate", "ini", r.ret, TRUE, "none", FALSE, NoPlain)
    /\ UNCHANGED <<cfg, rhs, rhs_n, msg2, sess, wire, sealed, reused, derived,
                   accepted, crypto_err>>
    /\ UNCHANGED upper_vars

\* Transport::handshake sends the timestamp as the payload
Initiate == InitiateWith(InitPayload)

\* #[derive(Clone)] of InitiatorHandshakeState
CloneInitiatorState ==
    /\ ihs_n >= 1 /\ ihs_n + derived["ini"].used < MaxCopies
    /\ ihs_n' = ihs_n + 1
    /\ last' = Call("clone", "ini", "Ok", FALSE, "none", FALSE, NoPlain)
    /\ UNCHANGED <<cfg, rng, ihs, rhs, rhs_n, msg1, msg2, sess, wire, sealed,
                   reused, derived, accepted, crypto_err>>
    /\ UNCHANGED upper_vars

\* #[derive(Clone)] of ResponderHandshakeState
CloneResponderState ==
    /\ rhs_n >= 1 /\ rhs_n + derived["resp"].used < MaxCopies
    /\ rhs_n' = rhs_n + 1
    /\ last' = Call("clone", "resp", "Ok", FALSE, "none", FALSE, NoPlain)
    /\ UNCHANGED <<cfg, rng, ihs, ihs_n, rhs, msg1, msg2, sess, wire, sealed,
                   reused, derived, accepted, crypto_err>>
    /\ UNCHANGED upper_vars

\* what a call that consumed a handshake state adds to the history
Consumed(d, ok) ==
    [used |-> d.used + 1,
     n |-> IF ok THEN d.n + 1 ELSE d.n,
     failed |-> d.failed \/ ~ok,
     after_failure |-> d.after_failure \/ (ok /\ d.failed)]

\* prologues the responder may be given: the one sent, or one with a bit flipped
RespPrologues == {Prologue(cfg["ini"], k) : k \in StaticKeys}
                     \cup {Prologue(FlipPoint(cfg["ini"]), cfg["resp"])}

\* the responder parses the first message as the network delivers it
Parse ==
    /\ msg1 # NoInitMsg
    /\ rhs = NoRhs
    /\ \E prologue \in RespPrologues, v \in InitVariations :
          LET r == parse_client_init_message(cfg["resp"], prologue, VaryInit(msg1, v))
          IN  /\ rhs' = r.state
              /\ rhs_n' = IF r.ret = "Ok" THEN 1 ELSE 0
              /\ last' = Call("parse", "resp", r.ret, r.ret \in {"Ok", "Decrypt"},
                              v, FALSE, r.payload)
    /\ UNCHANGED <<cfg, rng, ihs, ihs_n, msg1, msg2, sess, wire, sealed, reused,
                   derived, accepted, crypto_err>>
    /\ UNCHANGED upper_vars

\* the responder answers; the handshake state is moved into the call
RespondWith(payload, lens) ==
    /\ rhs_n >= 1
    /\ \E buffer_len \in lens :
          LET r == respond_to_client(Ephemeral(rng), rhs, payload, buffer_len)
              ok == r.ret = "Ok"
          IN  /\ rhs_n' = rhs_n - 1
              /\ rng' = IF r.rng_used THEN rng + 1 ELSE rng
              /\ msg2' = IF ok THEN msg2 \cup {r.msg} ELSE msg2
              /\ sess' = IF ok /\ sess["resp"] = NoSession
                         THEN [sess EXCEPT !["resp"] = r.session] ELSE sess
              /\ derived' = [derived EXCEPT !["resp"] = Consumed(@, ok)]
              /\ last' = Call("respond", "resp", r.ret, ok, "none", FALSE, NoPlain)
    /\ UNCHANGED <<cfg, ihs, ihs_n, rhs, msg1, wire, sealed, reused, accepted,
                   crypto_err>>
    /\ UNCHANGED upper_vars

\* the server answers with no payload
Respond == RespondWith(RespPayload, BufLens)

\* Transport::handshake, second half: the initiator finalizes on a response
Finalize ==
    /\ ihs_n >= 1
    /\ \E m \in msg2, v \in RespVariations :
          LET r == finalize_connection(cfg["ini"], ihs, VaryResp(m, v))
              ok == r.ret = "Ok"
          IN  /\ ihs_n' = ihs_n - 1
              /\ sess' = IF ok /\ sess["ini"] = NoSession
                         THEN [sess EXCEPT !["ini"] = r.session] ELSE sess
              /\ derived' = [derived EXCEPT !["ini"] = Consumed(@, ok)]
              /\ last' = Call("finalize", "ini", r.ret, r.ret \in {"Ok", "Decrypt"},
                              v, FALSE, r.payload)
    /\ UNCHANGED <<cfg, rng, ihs, rhs, rhs_n, msg1, msg2, wire, sealed, reused,
                   accepted, crypto_err>>
    /\ UNCHANGED upper_vars

\* one end calls write_message_in_place on a message, as NoiseStream::write_message
\* does, and sends the frame when the call returns the tag
Write(s) ==
    /\ sess[s] # NoSession
    /\ \E m \in AppMsgs(Len(wire[s]) + 1) :
          LET r == write_message_in_place(sess[s], m)
              nonce == sess[s].write_nonce
          IN  /\ sess' = [sess EXCEPT ![s] = r.session]
              /\ wire' = IF r.ret = "Ok"
                         THEN [wire EXCEPT ![s] = Append(@, r.frame)] ELSE wire
              /\ sealed' = IF r.aead
                           THEN [sealed EXCEPT ![s] = @ \cup {nonce}] ELSE sealed
              /\ reused' = IF r.aead /\ nonce \in sealed[s]
                           THEN [reused EXCEPT ![s] = TRUE] ELSE reused
              /\ crypto_err' = IF r.ret = "Encrypt"
                               THEN [crypto_err EXCEPT ![s] = TRUE] ELSE crypto_err
              /\ last' = Call("write", s, r.ret, r.aead, "none", FALSE, NoPlain)
    /\ UNCHANGED <<cfg, rng, ihs, ihs_n, rhs, rhs_n, msg1, msg2, derived, accepted>>
    /\ UNCHANGED upper_vars

\* one end calls read_message_in_place on a buffer holding some frame its peer
\* produced, as the network delivered it
Read(s) ==
    /\ sess[s] # NoSession
    /\ \E i \in 1..Len(wire[Peer(s)]), v \in FrameVariations :
          LET r == read_message_in_place(sess[s], VaryFrame(wire[Peer(s)][i], v))
          IN  /\ sess' = [sess EXCEPT ![s] = r.session]
              /\ accepted' = IF r.ret = "Ok"
                             THEN [accepted EXCEPT ![s] = @ + 1] ELSE accepted
              /\ crypto_err' = IF r.ret = "Decrypt"
                               THEN [crypto_err EXCEPT ![s] = TRUE] ELSE crypto_err
              /\ last' = Call("read", s, r.ret, r.aead, v,
                              i = sess[s].read_nonce + 1, r.out)
    /\ UNCHANGED <<cfg, rng, ihs, ihs_n, rhs, rhs_n, msg1, msg2, wire, sealed,
                   reused, derived>>
    /\ UNCHANGED upper_vars

\* the connection as the callers in the repository drive it: a handshake state
\* is moved into finalize_connection or respond_to_client and never cloned
Next ==
    \/ Initiate
    \/ Parse
    \/ Respond
    \/ Finalize
    \/ \E s \in Slots : Write(s)
    \/ \E s \in Slots : Read(s)

Spec == Init /\ [][Next]_vars

\* the handshake under callers that choose the payloads: none, the timestamp,
\* and the longest ones for which the message stays within MAX_SIZE_NOISE_MSG
\* and one byte more
InitPayloadLens ==
    {0, TIMESTAMP_SIZE, MAX_SIZE_NOISE_MSG - handshake_init_msg_len(0),
     MAX_SIZE_NOISE_MSG - handshake_init_msg_len(0) + 1}
RespPayloadLens ==
    {0, MAX_SIZE_NOISE_MSG - handshake_resp_msg_len(0),
     MAX_SIZE_NOISE_MSG - handshake_resp_msg_len(0) + 1}
NextPayloads ==
    \/ \E len \in InitPayloadLens : InitiateWith(Data(0, len))
    \/ Parse
    \/ \E len \in RespPayloadLens :
          RespondWith(Data(0, len), {handshake_resp_msg_len(len)})
    \/ Finalize

SpecPayloads == Init /\ [][NextPayloads]_vars

\* the handshake under any caller of noise.rs, which may clone the states
NextApi ==
    \/ Initiate
    \/ CloneInitiatorState
    \/ CloneResponderState
    \/ Parse
    \/ Respond
    \/ Finalize

SpecApi == Init /\ [][NextApi]_vars

(***************************************************************************)
(* perform_handshake on every pair of HandshakeMsgs.                       *)
(***************************************************************************)
\* crypto/noise.rs before any call, under the first of the configs
NoiseIdle == InitNoise /\ cfg = CHOOSE c \in Configs : TRUE

InitNegotiation ==
    /\ NoiseIdle
    /\ StreamIdle /\ TransportIdle /\ ConnectIdle /\ ConcurrentIdle /\ SetsIdle
    /\ our_handshake \in OurHandshakes
    /\ their_handshake \in TheirHandshakes
    /\ negotiated = NotNegotiated

\* connect_to_peer: our_handshake.perform_handshake(&their_handshake)
PerformHandshake ==
    /\ negotiated = NotNegotiated
    /\ negotiated' = perform_handshake(our_handshake, their_handshake)
    /\ UNCHANGED <<our_handshake, their_handshake, noise_vars, stream_vars,
                   transport_vars, connect_vars, concurrent_vars, set_vars>>

NextNegotiation == PerformHandshake

SpecNegotiation == InitNegotiation /\ [][NextNegotiation]_vars

(***************************************************************************)
(* A NoiseStream under any caller.  Transport::connect has completed an    *)
(* honest handshake; the initiator holds the NoiseStream, the responder    *)
(* its NoiseSession and the other end of the inner stream.                 *)
(***************************************************************************)
\* the calls of an honest handshake between two different key pairs
Dialled == CHOOSE c \in Configs : c["ini"] # c["resp"]
HonestInit ==
    initiate_connection(Dialled["ini"], Ephemeral(0),
                        Prologue(Dialled["ini"], Dialled["resp"]),
                        PublicKeyOf(Dialled["resp"]), InitPayload)
HonestParse ==
    parse_client_init_message(Dialled["resp"],
                              Prologue(Dialled["ini"], Dialled["resp"]),
                              HonestInit.msg)
HonestRespond ==
    respond_to_client(Ephemeral(1), HonestParse.state, RespPayload,
                      handshake_resp_msg_len(RespPayload.len))
HonestFinalize ==
    finalize_connection(Dialled["ini"], HonestInit.state, HonestRespond.msg)

\* crypto/noise.rs when Transport::connect returns the NoiseStream
Connected ==
    /\ cfg = Dialled
    /\ rng = 2
    /\ ihs = HonestInit.state /\ ihs_n = 0
    /\ rhs = HonestParse.state /\ rhs_n = 0
    /\ msg1 = HonestInit.msg
    /\ msg2 = {HonestRespond.msg}
    /\ sess = [s \in Slots |-> IF s = "ini" THEN HonestFinalize.session
                               ELSE HonestRespond.session]
    /\ wire = [s \in Slots |-> <<>>]
    /\ sealed = [s \in Slots |-> {}]
    /\ reused = [s \in Slots |-> FALSE]
    /\ derived = [s \in Slots |-> Consumed(NoDerived, TRUE)]
    /\ accepted = [s \in Slots |-> 0]
    /\ crypto_err = [s \in Slots |-> FALSE]
    /\ last = Call("finalize", "ini", "Ok", TRUE, "none", FALSE, RespPayload)

InitStream == Connected /\ UpperIdle

\* what a call on the NoiseStream adds to its history
AfterCall(r) ==
    /\ rejected' = IF r.ret = "Message too large" THEN rejected + 1 ELSE rejected
    /\ ok_after_reject' = (ok_after_reject \/ (rejected > 0 /\ r.ret = "Ok"))

\* the caller awaits NoiseStream::read_message and the peer has sent something
StreamRead ==
    /\ inbound # <<>>
    /\ LET r == read_message(sess["ini"], inbound)
       IN  /\ sess' = [sess EXCEPT !["ini"] = r.session]
           /\ inbound' = r.rest
           /\ accepted' = IF r.ret = "Ok"
                          THEN [accepted EXCEPT !["ini"] = @ + 1] ELSE accepted
           /\ crypto_err' = IF r.cause = "Decrypt"
                            THEN [crypto_err EXCEPT !["ini"] = TRUE] ELSE crypto_err
           /\ io' = StreamCall("read_message", r.ret, r.cause, r.declared,
                               r.allocated, r.length_bytes, r.payload_bytes, FALSE, r.out)
           /\ AfterCall(r)
    /\ UNCHANGED <<cfg, rng, ihs, ihs_n, rhs, rhs_n, msg1, msg2, wire, sealed,
                   reused, derived, last, outbound, negotiation_vars, transport_vars, connect_vars, concurrent_vars, set_vars, buffer_vars>>

\* the caller awaits NoiseStream::write_message, on the inner stream inner
StreamWriteOn(inner) ==
    /\ \E m \in AppMsgs(Len(wire["ini"]) + 1) :
          LET r == write_message(sess["ini"], m, inner)
              nonce == sess["ini"].write_nonce
          IN  /\ sess' = [sess EXCEPT !["ini"] = r.session]
              /\ outbound' = outbound \o r.written
              /\ wire' = IF r.ret = "Ok"
                         THEN [wire EXCEPT !["ini"] = Append(@, r.frame)] ELSE wire
              /\ sealed' = IF r.aead
                           THEN [sealed EXCEPT !["ini"] = @ \cup {nonce}] ELSE sealed
              /\ reused' = IF r.aead /\ nonce \in sealed["ini"]
                           THEN [reused EXCEPT !["ini"] = TRUE] ELSE reused
              /\ io' = StreamCall("write_message", r.ret, r.cause, r.declared, FALSE,
                                  r.length_bytes, r.payload_bytes, r.flushed,
                                  NoPlain)
              /\ AfterCall(r)
    /\ UNCHANGED <<cfg, rng, ihs, ihs_n, rhs, rhs_n, msg1, msg2, derived,
                   accepted, crypto_err, last, inbound, negotiation_vars, transport_vars, connect_vars, concurrent_vars, set_vars, buffer_vars>>

\* the peer encrypts a message with its session and sends the frame, which
\* arrives as sent or with one bit of the ciphertext flipped
PeerSend ==
    /\ \E v \in {"none", "flip_p"} :
          LET r == write_message_in_place(sess["resp"],
                                          Data(Len(wire["resp"]) + 1, MsgLen))
          IN  /\ r.ret = "Ok"
              /\ sess' = [sess EXCEPT !["resp"] = r.session]
              /\ wire' = [wire EXCEPT !["resp"] = Append(@, r.frame)]
              /\ sealed' = [sealed EXCEPT !["resp"] = @ \cup {sess["resp"].write_nonce}]
              /\ inbound' = Append(inbound, FrameItem(VaryFrame(r.frame, v)))
    /\ UNCHANGED <<cfg, rng, ihs, ihs_n, rhs, rhs_n, msg1, msg2, reused, derived,
                   accepted, crypto_err, last, outbound, io, rejected,
                   ok_after_reject, negotiation_vars, transport_vars, connect_vars, concurrent_vars, set_vars, buffer_vars>>

\* the number of oversize prefixes waiting in a stream
RECURSIVE Oversize(_)
Oversize(stream) ==
    IF stream = <<>> THEN 0
    ELSE (IF Head(stream).prefix > MAX_SIZE_NOISE_MSG THEN 1 ELSE 0)
            + Oversize(Tail(stream))

\* the peer sends a length prefix that declares more than the maximum
PeerOversize ==
    /\ rejected + Oversize(inbound) < MaxOversize
    /\ \E n \in OversizeLens : inbound' = Append(inbound, BarePrefix(n))
    /\ UNCHANGED <<noise_vars, outbound, io, rejected, ok_after_reject,
                   negotiation_vars, transport_vars, connect_vars, concurrent_vars, set_vars, buffer_vars>>

\* the inner stream is sound
StreamWrite == StreamWriteOn(SoundStream)

NextStream ==
    \/ StreamRead
    \/ StreamWrite
    \/ PeerSend
    \/ PeerOversize

SpecStream == InitStream /\ [][NextStream]_vars

(***************************************************************************)
(* NoiseStream behind AsyncRead and AsyncWrite.                            *)
(***************************************************************************)
\* the lengths of the buffers a caller polls with
PollLens == {0, 1, MsgLen}

\* the caller polls poll_read
PollRead ==
    /\ \E len \in PollLens :
          LET r == poll_read(read_buffer, read_pos, len)
          IN  /\ read_pos' = r.read_pos
              /\ inbound' = SubSeq(inbound, r.taken + 1, Len(inbound))
              /\ polled' = Poll("poll_read", len, r.ret, r.out)
    /\ UNCHANGED <<noise_vars, outbound, io, rejected, ok_after_reject, read_buffer,
                   negotiation_vars, transport_vars, connect_vars, concurrent_vars, set_vars>>

\* the caller polls poll_write
PollWrite ==
    /\ \E len \in PollLens :
          LET r == poll_write(sess["ini"], Data(0, len))
          IN  /\ sess' = [sess EXCEPT !["ini"] = r.session]
              /\ outbound' = outbound \o r.written
              /\ polled' = Poll("poll_write", len, r.ret, <<>>)
    /\ UNCHANGED <<cfg, rng, ihs, ihs_n, rhs, rhs_n, msg1, msg2, wire, sealed,
                   reused, derived, accepted, crypto_err, last,
                   inbound, io, rejected, ok_after_reject, read_buffer, read_pos,
                   negotiation_vars, transport_vars, connect_vars, concurrent_vars, set_vars>>

\* the caller polls poll_flush, which flushes the inner stream
PollFlush ==
    /\ polled' = Poll("poll_flush", 0, 0, <<>>)
    /\ UNCHANGED <<noise_vars, inbound, outbound, io, rejected, ok_after_reject,
                   read_buffer, read_pos,
                   negotiation_vars, transport_vars, connect_vars, concurrent_vars, set_vars>>

NextPoll ==
    \/ StreamWrite
    \/ PeerSend
    \/ PollRead
    \/ PollWrite
    \/ PollFlush

SpecPoll == InitStream /\ [][NextPoll]_vars

(***************************************************************************)
(* NoiseStream::write_message on inner streams that fail.                  *)
(***************************************************************************)
NextWrite == \E inner \in InnerStreams : StreamWriteOn(inner)

SpecWrite == InitStream /\ [][NextWrite]_vars

(***************************************************************************)
(* Transport::handshake against a server that reads the client message,    *)
(* splits the prologue off and answers (tests/handshake_test.rs), that     *)
(* answers badly, or that writes before it has read anything.              *)
(***************************************************************************)
InitTransport == InitNoise /\ UpperIdle

\* the bytes of the whole client message
REQUEST_SIZE == PROLOGUE_SIZE + handshake_init_msg_len(TIMESTAMP_SIZE)

\* the failed step is followed by another attempt from the start
Retried(e) == hs_pc' = "connect" /\ returned' = returned

\* `?`: the call returns the error e to its caller
Failed(e) == hs_pc' = "failed" /\ returned' = e

\* Transport::connect: TcpStream::connect(addr), then handshake on the stream
HsConnect ==
    /\ hs_pc = "connect"
    /\ \E ok \in BOOLEAN :
          IF ok THEN hs_pc' = "initiate_connection" /\ returned' = returned
          ELSE Failed("Failed to connect via TCP")
    /\ UNCHANGED <<sent, flushed, server, response, server_response, trace>>
    /\ UNCHANGED <<noise_vars, negotiation_vars, stream_vars, connect_vars, concurrent_vars, set_vars>>

\* initiate_connection with the prologue our_peer_id | remote_public_key
HsInitiate ==
    /\ hs_pc = "initiate_connection"
    /\ \E remote \in StaticKeys :
          LET r == initiate_connection(cfg["ini"], Ephemeral(rng),
                                       Prologue(cfg["ini"], remote),
                                       PublicKeyOf(remote), InitPayload)
          IN  /\ ihs' = r.state
              /\ ihs_n' = 1
              /\ msg1' = r.msg
              /\ rng' = rng + 1
              /\ last' = Call("initiate", "ini", r.ret, TRUE, "none", FALSE, NoPlain)
              /\ trace' = Append(trace, HsCall("initiate_connection", r.ret, 0))
    /\ hs_pc' = "write_all"
    /\ UNCHANGED <<cfg, rhs, rhs_n, msg2, sess, wire, sealed, reused, derived,
                   accepted, crypto_err>>
    /\ UNCHANGED <<sent, flushed, server, response, server_response, returned>>
    /\ UNCHANGED <<negotiation_vars, stream_vars, connect_vars, concurrent_vars, set_vars>>

\* stream.write_all(&client_message): all of it, or an error after part of it
HsWriteAll ==
    /\ hs_pc = "write_all"
    /\ LET whole == client_message(cfg["ini"], ihs.rs.key, msg1)
       IN  \E k \in 0..Len(whole) :
              /\ sent' = SubSeq(whole, 1, k)
              /\ trace' = Append(trace,
                                 HsCall("write_all",
                                        IF k = Len(whole) THEN "Ok" ELSE "io error",
                                        Size(SubSeq(whole, 1, k))))
              /\ IF k = Len(whole)
                 THEN hs_pc' = "flush" /\ returned' = returned
                 ELSE Failed("io error")
    /\ UNCHANGED <<flushed, server, response, server_response>>
    /\ UNCHANGED <<noise_vars, negotiation_vars, stream_vars, connect_vars, concurrent_vars, set_vars>>

\* stream.flush()
HsFlush ==
    /\ hs_pc = "flush"
    /\ \E ok \in BOOLEAN :
          /\ flushed' = ok
          /\ trace' = Append(trace, HsCall("flush", IF ok THEN "Ok" ELSE "io error", 0))
          /\ IF ok THEN hs_pc' = "read_exact" /\ returned' = returned
             ELSE Failed("io error")
    /\ UNCHANGED <<sent, server, response, server_response>>
    /\ UNCHANGED <<noise_vars, negotiation_vars, stream_vars, connect_vars, concurrent_vars, set_vars>>

\* stream.read_exact(&mut server_response), once the stream holds the bytes
\* or has been closed
HsReadExact ==
    /\ hs_pc = "read_exact"
    /\ response.len >= SERVER_MESSAGE_SIZE \/ response.closed
    /\ LET r == read_exact(response, SERVER_MESSAGE_SIZE)
       IN  /\ response' = r.rest
           /\ server_response' = r.buf
           /\ trace' = Append(trace, HsCall("read_exact", r.ret, r.bytes))
           /\ IF r.ret = "Ok"
              THEN hs_pc' = "finalize_connection" /\ returned' = returned
              ELSE Failed(r.ret)
    /\ UNCHANGED <<sent, flushed, server>>
    /\ UNCHANGED <<noise_vars, negotiation_vars, stream_vars, connect_vars, concurrent_vars, set_vars>>

\* finalize_connection(handshake_state, &server_response), then Ok(..)
HsFinalize ==
    /\ hs_pc = "finalize_connection"
    /\ LET r == finalize_connection(cfg["ini"], ihs, server_response)
           ok == r.ret = "Ok"
       IN  /\ ihs_n' = ihs_n - 1
           /\ sess' = IF ok THEN [sess EXCEPT !["ini"] = r.session] ELSE sess
           /\ derived' = [derived EXCEPT !["ini"] = Consumed(@, ok)]
           /\ last' = Call("finalize", "ini", r.ret, r.ret \in {"Ok", "Decrypt"},
                           "none", FALSE, r.payload)
           /\ trace' = Append(trace, HsCall("finalize_connection", r.ret, 0))
           /\ IF ok THEN hs_pc' = "returned" /\ returned' = "Ok"
              ELSE Failed("Noise finalize failed")
    /\ UNCHANGED <<cfg, rng, ihs, rhs, rhs_n, msg1, msg2, wire, sealed, reused,
                   accepted, crypto_err>>
    /\ UNCHANGED <<sent, flushed, server, response, server_response>>
    /\ UNCHANGED <<negotiation_vars, stream_vars, connect_vars, concurrent_vars, set_vars>>

\* what the server writes for response m: the response, the response with a
\* bit flipped, all but its last byte before closing, or one byte more
ServerWrites == {"none", "flip_p", "short", "extra"}
Written(m, v, taken) ==
    CASE v = "none" -> Response(m.len, m, taken, FALSE)
      [] v = "flip_p" -> Response(m.len, VaryResp(m, "flip_p"), taken, FALSE)
      [] v = "short" -> Response(m.len - 1, VaryResp(m, "cut_p"), taken, TRUE)
      [] v = "extra" -> Response(m.len + 1, m, taken, FALSE)

\* the server has the whole client message: it splits the prologue off,
\* parses the Noise message and answers, or closes the stream
ServerRespond ==
    /\ server = "listening"
    /\ Size(sent) = REQUEST_SIZE
    /\ LET p == parse_client_init_message(cfg["resp"],
                                          Prologue(sent[1].val, sent[2].val),
                                          sent[3].val)
           r == respond_to_client(Ephemeral(rng), p.state, RespPayload,
                                  SERVER_MESSAGE_SIZE)
       IN  /\ rhs' = p.state
           /\ last' = Call("parse", "resp", p.ret, p.ret \in {"Ok", "Decrypt"},
                           "none", FALSE, p.payload)
           /\ IF p.ret = "Ok"
              THEN /\ \E v \in ServerWrites :
                         response' = Written(r.msg, v, response.taken)
                   /\ rng' = rng + 1
                   /\ msg2' = {r.msg}
                   /\ sess' = [sess EXCEPT !["resp"] = r.session]
                   /\ derived' = [derived EXCEPT !["resp"] = Consumed(@, TRUE)]
                   /\ server' = "responded"
              ELSE /\ response' = [response EXCEPT !.closed = TRUE]
                   /\ server' = "closed"
                   /\ UNCHANGED <<rng, msg2, sess, derived>>
    /\ UNCHANGED <<cfg, ihs, ihs_n, rhs_n, msg1, wire, sealed, reused, accepted,
                   crypto_err>>
    /\ UNCHANGED <<hs_pc, sent, flushed, server_response, trace, returned>>
    /\ UNCHANGED <<negotiation_vars, stream_vars, connect_vars, concurrent_vars, set_vars>>

\* the server writes SERVER_MESSAGE_SIZE bytes of its own before the client
\* message is complete, and closes the stream or leaves it open
ServerEarly ==
    /\ server = "listening"
    /\ Size(sent) < REQUEST_SIZE
    /\ \E closed \in BOOLEAN :
          response' = Response(SERVER_MESSAGE_SIZE,
                               [len |-> SERVER_MESSAGE_SIZE,
                                e |-> PublicKeyOf(cfg["resp"]), p |-> Damaged(NoCt)],
                               response.taken, closed)
    /\ server' = "early"
    /\ UNCHANGED <<hs_pc, sent, flushed, server_response, trace, returned>>
    /\ UNCHANGED <<noise_vars, negotiation_vars, stream_vars, connect_vars, concurrent_vars, set_vars>>

NextTransport ==
    \/ HsConnect
    \/ HsInitiate
    \/ HsWriteAll
    \/ HsFlush
    \/ HsReadExact
    \/ HsFinalize
    \/ ServerRespond
    \/ ServerEarly

SpecTransport == InitTransport /\ [][NextTransport]_vars

(***************************************************************************)
(* Network::connect_to_peer from the return of Transport::connect on,      *)
(* against a peer that sends what it likes when it likes.                  *)
(***************************************************************************)
InitConnect ==
    /\ Connected
    /\ NegotiationIdle /\ StreamIdle /\ TransportIdle /\ ConcurrentIdle /\ SetsIdle
    /\ conn_pc = "send_handshake"
    /\ conn_log = <<>>

\* the HandshakeMsgs the peer may send: the same as ours, another chain,
\* another network, no protocol in common, a longer protocol set
PeerHandshakes ==
    {HandshakeMsg_new(MAINNET, "Public"),
     HandshakeMsg_new(TESTNET, "Public"),
     HandshakeMsg_new(MAINNET, "Validator"),
     [HandshakeMsg_new(MAINNET, "Public") EXCEPT
        !.supported_protocols = (V1 :> from_iter({ConsensusRpcBcs}))],
     [HandshakeMsg_new(MAINNET, "Public") EXCEPT
        !.supported_protocols = (V1 :> Append(from_iter(ProtocolIds), ZeroByte))]}

\* stream.write_message(&msg_bytes).await? on the NoiseStream
ConnWrite(payload, what, next) ==
    LET r == write_message(sess["ini"], payload, SoundStream)
        nonce == sess["ini"].write_nonce
    IN  /\ sess' = [sess EXCEPT !["ini"] = r.session]
        /\ outbound' = outbound \o r.written
        /\ wire' = IF r.ret = "Ok"
                   THEN [wire EXCEPT !["ini"] = Append(@, r.frame)] ELSE wire
        /\ sealed' = IF r.aead
                     THEN [sealed EXCEPT !["ini"] = @ \cup {nonce}] ELSE sealed
        /\ reused' = IF r.aead /\ nonce \in sealed["ini"]
                     THEN [reused EXCEPT !["ini"] = TRUE] ELSE reused
        /\ io' = StreamCall("write_message", r.ret, r.cause, r.declared, FALSE,
                            r.length_bytes, r.payload_bytes, r.flushed, NoPlain)
        /\ AfterCall(r)
        /\ conn_log' = Append(conn_log, ConnCall("write_message", what, r.ret))
        /\ conn_pc' = IF r.ret = "Ok" THEN next ELSE "failed"

\* stream.read_message().await? and bcs::from_bytes(&resp_bytes)? of type
ConnRead(type, next) ==
    LET r == read_message(sess["ini"], inbound)
        d == from_bytes(type, r.out)
    IN  /\ sess' = [sess EXCEPT !["ini"] = r.session]
        /\ inbound' = r.rest
        /\ accepted' = IF r.ret = "Ok"
                       THEN [accepted EXCEPT !["ini"] = @ + 1] ELSE accepted
        /\ crypto_err' = IF r.cause = "Decrypt"
                         THEN [crypto_err EXCEPT !["ini"] = TRUE] ELSE crypto_err
        /\ io' = StreamCall("read_message", r.ret, r.cause, r.declared,
                            r.allocated, r.length_bytes, r.payload_bytes, FALSE, r.out)
        /\ AfterCall(r)
        /\ conn_log' = Append(conn_log,
                              ConnCall("read_message",
                                       IF r.ret = "Ok" THEN r.out.id[1] ELSE "none",
                                       IF r.ret = "Ok" THEN d.ret ELSE r.ret))
        /\ conn_pc' = IF r.ret = "Ok" /\ d.ret = "Ok" THEN next ELSE "failed"
        /\ their_handshake' = IF r.ret = "Ok" /\ d.ret = "Ok" /\ type = "HandshakeMsg"
                              THEN d.value ELSE their_handshake

\* 1. Send our HandshakeMsg
ConnSendHandshake ==
    /\ conn_pc = "send_handshake"
    /\ our_handshake' = HandshakeMsg_new(MAINNET, "Public")
    /\ ConnWrite(HandshakeMsg_to_bytes(HandshakeMsg_new(MAINNET, "Public")),
                 "HandshakeMsg", "recv_handshake")
    /\ UNCHANGED <<cfg, rng, ihs, ihs_n, rhs, rhs_n, msg1, msg2, derived,
                   accepted, crypto_err, last, inbound, their_handshake,
                   negotiated, transport_vars, concurrent_vars, set_vars, buffer_vars>>

\* 2. Receive their HandshakeMsg
ConnRecvHandshake ==
    /\ conn_pc = "recv_handshake"
    /\ inbound # <<>>
    /\ ConnRead("HandshakeMsg", "perform_handshake")
    /\ UNCHANGED <<cfg, rng, ihs, ihs_n, rhs, rhs_n, msg1, msg2, wire, sealed,
                   reused, derived, last, outbound, our_handshake, negotiated,
                   transport_vars, concurrent_vars, set_vars, buffer_vars>>

\* 3. Negotiate
ConnNegotiate ==
    /\ conn_pc = "perform_handshake"
    /\ LET r == perform_handshake(our_handshake, their_handshake)
       IN  /\ negotiated' = r
           /\ conn_log' = Append(conn_log,
                                 ConnCall("perform_handshake", "none", r.ret))
           /\ conn_pc' = IF r.ret = "Ok" THEN "send_request" ELSE "failed"
    /\ UNCHANGED <<noise_vars, our_handshake, their_handshake, stream_vars,
                   transport_vars, concurrent_vars, set_vars>>

\* the StorageServiceRequest is sent
ConnSendRequest ==
    /\ conn_pc = "send_request"
    /\ ConnWrite(StorageServiceRequest_to_bytes, "StorageServiceRequest",
                 "recv_response")
    /\ UNCHANGED <<cfg, rng, ihs, ihs_n, rhs, rhs_n, msg1, msg2, derived,
                   accepted, crypto_err, last, inbound, negotiation_vars,
                   transport_vars, concurrent_vars, set_vars, buffer_vars>>

\* the response is read and decoded
ConnRecvResponse ==
    /\ conn_pc = "recv_response"
    /\ inbound # <<>>
    /\ ConnRead("StorageServiceResponseWrapper", "done")
    /\ UNCHANGED <<cfg, rng, ihs, ihs_n, rhs, rhs_n, msg1, msg2, wire, sealed,
                   reused, derived, last, outbound, our_handshake, negotiated,
                   transport_vars, concurrent_vars, set_vars, buffer_vars>>

\* the inner stream fails under the call connect_to_peer is awaiting
ConnIoError ==
    /\ conn_pc \in {"send_handshake", "recv_handshake", "send_request",
                    "recv_response"}
    /\ conn_log' = Append(conn_log,
                          ConnCall(IF conn_pc \in {"send_handshake", "send_request"}
                                   THEN "write_message" ELSE "read_message",
                                   "none", "io error"))
    /\ conn_pc' = "failed"
    /\ UNCHANGED <<noise_vars, negotiation_vars, stream_vars, transport_vars, concurrent_vars, set_vars>>

\* the peer encrypts payload with its session and sends the frame
PeerFrame(payload, v) ==
    LET r == write_message_in_place(sess["resp"], payload)
    IN  /\ r.ret = "Ok"
        /\ sess' = [sess EXCEPT !["resp"] = r.session]
        /\ wire' = [wire EXCEPT !["resp"] = Append(@, r.frame)]
        /\ sealed' = [sealed EXCEPT !["resp"] = @ \cup {sess["resp"].write_nonce}]
        /\ inbound' = Append(inbound, FrameItem(VaryFrame(r.frame, v)))

\* the peer sends a HandshakeMsg, which arrives as sent or with a bit flipped
PeerHandshake ==
    /\ \E msg \in PeerHandshakes, v \in {"none", "flip_p"} :
          PeerFrame(HandshakeMsg_to_bytes(msg), v)
    /\ UNCHANGED <<cfg, rng, ihs, ihs_n, rhs, rhs_n, msg1, msg2, reused, derived,
                   accepted, crypto_err, last, outbound, io, rejected,
                   ok_after_reject, negotiation_vars, transport_vars, connect_vars, concurrent_vars, set_vars, buffer_vars>>

\* the peer answers a request it has received
PeerResponse ==
    /\ \E i \in 1..Len(outbound) :
          outbound[i].body[1].pt = StorageServiceRequest_to_bytes
    /\ PeerFrame(StorageServiceResponse_to_bytes, "none")
    /\ UNCHANGED <<cfg, rng, ihs, ihs_n, rhs, rhs_n, msg1, msg2, reused, derived,
                   accepted, crypto_err, last, outbound, io, rejected,
                   ok_after_reject, negotiation_vars, transport_vars, connect_vars, concurrent_vars, set_vars, buffer_vars>>

NextConnect ==
    \/ ConnSendHandshake
    \/ ConnRecvHandshake
    \/ ConnNegotiate
    \/ ConnSendRequest
    \/ ConnRecvResponse
    \/ ConnIoError
    \/ PeerHandshake
    \/ PeerResponse
    \/ PeerSend

SpecConnect == InitConnect /\ [][NextConnect]_vars

(***************************************************************************)
(* The sessions of an established connection under writes of plaintexts    *)
(* around the largest length write_message_in_place takes.                 *)
(***************************************************************************)
InitLimits == Connected /\ UpperIdle

\* the largest plaintext of a frame
MaxPlainLen == MAX_SIZE_NOISE_MSG - AES_GCM_TAGLEN
\* plaintext lengths: an ordinary message, the largest one, one byte more
PlainLens == {MsgLen, MaxPlainLen, MaxPlainLen + 1}

\* one end calls write_message_in_place on a buffer of len bytes; last.out is
\* the plaintext the buffer held
WriteOfLength(s) ==
    /\ \E len \in PlainLens :
          LET m == Data(Len(wire[s]) + 1, len)
              r == write_message_in_place(sess[s], m)
              nonce == sess[s].write_nonce
          IN  /\ sess' = [sess EXCEPT ![s] = r.session]
              /\ wire' = IF r.ret = "Ok"
                         THEN [wire EXCEPT ![s] = Append(@, r.frame)] ELSE wire
              /\ sealed' = IF r.aead
                           THEN [sealed EXCEPT ![s] = @ \cup {nonce}] ELSE sealed
              /\ reused' = IF r.aead /\ nonce \in sealed[s]
                           THEN [reused EXCEPT ![s] = TRUE] ELSE reused
              /\ crypto_err' = IF r.ret = "Encrypt"
                               THEN [crypto_err EXCEPT ![s] = TRUE] ELSE crypto_err
              /\ last' = Call("write", s, r.ret, r.aead, "none", FALSE, m)
    /\ UNCHANGED <<cfg, rng, ihs, ihs_n, rhs, rhs_n, msg1, msg2, derived, accepted>>
    /\ UNCHANGED upper_vars

\* both ends write; the initiator also reads, which is what closes a session
NextLimits ==
    \/ \E s \in Slots : WriteOfLength(s)
    \/ Read("ini")

SpecLimits == InitLimits /\ [][NextLimits]_vars

(***************************************************************************)
(* Several tasks in Transport::connect at the same time on one Transport.  *)
(* The NoiseConfig is borrowed shared (&self) by every call; the handshake *)
(* state and the session of a connection are values local to its task.    *)
(* Each connection has its own server at the other end of its stream.      *)
(***************************************************************************)
Conns == 1..MaxConns

\* one generator for all tasks: the secret depends on how many were drawn
\* before it
shared_rng(c, role, drawn) == Ephemeral(drawn)

\* rand::thread_rng() and StaticSecret::new(rng): a fresh secret for the
\* role-th draw of connection c, whatever was drawn (drawn) by others before
thread_rng(c, role, drawn) == Ephemeral(2 * c + role)

\* a connection: the key it dials and what its server does to the response
\* (inputs), where its task is, and the values the task holds
Conn(remote, damage, pc, hs, msg, resp, session, out) ==
    [remote |-> remote, damage |-> damage, pc |-> pc, hs |-> hs, msg |-> msg,
     resp |-> resp, session |-> session, out |-> out]
Fresh(remote, damage) ==
    Conn(remote, damage, "initiate_connection", NoIhs, NoInitMsg, NoRespMsg,
         NoSession, NoPlain)

\* the tasks start with nothing but their inputs
InitConcurrent ==
    /\ InitNoise
    /\ NegotiationIdle /\ StreamIdle /\ TransportIdle /\ ConnectIdle /\ SetsIdle
    /\ conns \in [Conns -> {Fresh(remote, damage) :
                              remote \in StaticKeys, damage \in {"none", "flip_p"}}]

\* the handshake calls of connection c, by the draws they were given
ConnInit(c, drawn) ==
    initiate_connection(cfg["ini"], thread_rng(c, 0, drawn),
                        Prologue(cfg["ini"], conns[c].remote),
                        PublicKeyOf(conns[c].remote), InitPayload)
ConnParse(c, msg) ==
    parse_client_init_message(cfg["resp"], Prologue(cfg["ini"], conns[c].remote), msg)
ConnRespond(c, state, drawn) ==
    respond_to_client(thread_rng(c, 1, drawn), state, RespPayload,
                      handshake_resp_msg_len(RespPayload.len))

\* a task holds its values itself: nothing outside conns and the rng moves
OnlyConns ==
    /\ UNCHANGED <<cfg, ihs, ihs_n, rhs, rhs_n, msg1, msg2, sess, wire, sealed,
                   reused, derived, accepted, crypto_err, last>>
    /\ UNCHANGED <<negotiation_vars, stream_vars, transport_vars, connect_vars,
                   set_vars>>

\* the task of c: initiate_connection, then the request is written
ConnInitiate(c) ==
    /\ conns[c].pc = "initiate_connection"
    /\ conns' = [conns EXCEPT ![c].hs = ConnInit(c, rng).state,
                              ![c].msg = ConnInit(c, rng).msg,
                              ![c].pc = "read_exact"]
    /\ rng' = rng + 1
    /\ OnlyConns

\* the server of c parses the request and answers, or closes the stream
ConnServer(c) ==
    /\ conns[c].pc = "read_exact" /\ conns[c].resp = NoRespMsg
    /\ LET q == ConnParse(c, conns[c].msg)
           r == ConnRespond(c, q.state, rng)
       IN  IF q.ret = "Ok"
           THEN /\ conns' = [conns EXCEPT ![c].resp = VaryResp(r.msg, conns[c].damage)]
                /\ rng' = rng + 1
           ELSE /\ conns' = [conns EXCEPT ![c].pc = "failed", ![c].hs = NoIhs]
                /\ rng' = rng
    /\ OnlyConns

\* the task of c: the response is read, finalize_connection
ConnFinalize(c) ==
    /\ conns[c].pc = "read_exact" /\ conns[c].resp # NoRespMsg
    /\ LET r == finalize_connection(cfg["ini"], conns[c].hs, conns[c].resp)
       IN  conns' = [conns EXCEPT
                        ![c].pc = IF r.ret = "Ok" THEN "connected" ELSE "failed",
                        ![c].hs = NoIhs,
                        ![c].session = r.session,
                        ![c].out = r.payload]
    /\ rng' = rng
    /\ OnlyConns

\* the task of c writes a message on its NoiseStream
ConnSend(c) ==
    /\ conns[c].pc = "connected"
    /\ LET r == write_message_in_place(conns[c].session,
                                       Data(conns[c].session.write_nonce + 1, MsgLen))
       IN  /\ r.ret = "Ok"
           /\ conns' = [conns EXCEPT ![c].session = r.session]
    /\ rng' = rng
    /\ OnlyConns

\* the future of c is dropped at an await: its locals are dropped with it
ConnAbandon(c) ==
    /\ conns[c].pc \in {"read_exact", "connected"}
    /\ conns' = [conns EXCEPT ![c] = [Fresh(@.remote, @.damage) EXCEPT !.pc = "dropped"]]
    /\ rng' = rng
    /\ OnlyConns

NextConcurrent ==
    \E c \in Conns :
       \/ ConnInitiate(c)
       \/ ConnServer(c)
       \/ ConnFinalize(c)
       \/ ConnSend(c)
       \/ ConnAbandon(c)

SpecConcurrent == InitConcurrent /\ [][NextConcurrent]_vars



(***************************************************************************)
(* ProtocolIdSet of network/handshake.rs as a value of its own.            *)
(***************************************************************************)
\* Deserialize for ProtocolIdSet takes any byte vector: sets of different
\* lengths, with trailing zero bytes, and with bits that are no ProtocolId
\* (bits 29 to 31 of the fourth byte, and every bit of a fifth byte)
WireSets ==
    {<<>>, <<{0}>>, <<{1, 7}>>, <<{0}, {0}>>, <<{}, {0}>>, <<{0}, {}, {}>>,
     <<{}, {}, {}, {4}>>, <<{}, {}, {}, {5}>>, <<{0}, {}, {}, {4, 5}, {0}>>}
\* intersect has not run
NotComputed == <<{0 - 1}>>

\* two sets, as received
InitIntersect ==
    /\ InitNoise
    /\ NegotiationIdle /\ StreamIdle /\ TransportIdle /\ ConnectIdle
    /\ ConcurrentIdle
    /\ set_a \in WireSets /\ set_b \in WireSets
    /\ meet = NotComputed
    /\ inserted = {}

\* set_a.intersect(&set_b)
Intersect ==
    /\ meet' = intersect(set_a, set_b)
    /\ UNCHANGED <<set_a, set_b, inserted>>
    /\ UNCHANGED <<noise_vars, negotiation_vars, stream_vars, transport_vars,
                   connect_vars, concurrent_vars>>

SpecIntersect == InitIntersect /\ [][Intersect]_vars

\* the ids inserted in the runs: in one byte, in the next bytes, the highest
InsertIds == {ConsensusRpcBcs, 1, 7, StorageServiceRpc, 9, 16, ConsensusObserverRpc}

\* ProtocolIdSet::empty()
InitInsert ==
    /\ InitNoise
    /\ NegotiationIdle /\ StreamIdle /\ TransportIdle /\ ConnectIdle
    /\ ConcurrentIdle
    /\ set_a = empty /\ inserted = {}
    /\ set_b = <<>> /\ meet = <<>>

\* set_a.insert(p)
Insert(p) ==
    /\ set_a' = insert(set_a, p)
    /\ inserted' = inserted \cup {p}
    /\ UNCHANGED <<set_b, meet>>
    /\ UNCHANGED <<noise_vars, negotiation_vars, stream_vars, transport_vars,
                   connect_vars, concurrent_vars>>

NextInsert == \E p \in InsertIds : Insert(p)

SpecInsert == InitInsert /\ [][NextInsert]_vars

(***************************************************************************)
(* Properties of the sessions.                                             *)
(***************************************************************************)
Live(s) == sess[s] # NoSession /\ sess[s].valid
Dead(s) == sess[s] # NoSession /\ ~sess[s].valid
\* the call just made was a read or a write on the session of s
OnSession(call, s) == call.slot = s /\ call.op \in {"read", "write"}

\* C1: valid = false is absorbing.  Once a session is invalid no step makes
\* it valid again, and every later write_message_in_place and
\* read_message_in_place on it returns SessionClosed, runs no AEAD operation
\* and leaves write_nonce and read_nonce as they were.
C1_InvalidIsAbsorbing ==
    [][\A s \in Slots :
          Dead(s) =>
             /\ sess'[s] = sess[s]
             /\ sealed'[s] = sealed[s]
             /\ OnSession(last', s) =>
                   (last'.ret = "SessionClosed" /\ ~last'.aead)]_vars

\* a session closed by an oversize or undersize buffer, not by the AEAD, has
\* just refused a write
C1_Witness ==
    \E s \in Slots :
       /\ Dead(s) /\ ~crypto_err[s]
       /\ OnSession(last, s) /\ last.op = "write" /\ last.ret = "SessionClosed"

\* C2: once a read or a write on a session has failed with a cryptographic
\* error (Decrypt, Encrypt), every later read and write on that session
\* fails and performs no cryptographic work.
C2_CryptoFailureIsSticky ==
    [][\A s \in Slots :
          crypto_err[s] =>
             (OnSession(last', s) =>
                 /\ last'.ret # "Ok"
                 /\ ~last'.aead
                 /\ sealed'[s] = sealed[s]
                 /\ accepted'[s] = accepted[s]
                 /\ wire'[s] = wire[s])]_vars

\* a session whose read failed to decrypt has just refused another read
C2_Witness ==
    \E s \in Slots :
       /\ crypto_err[s]
       /\ OnSession(last, s) /\ last.op = "read" /\ last.ret = "SessionClosed"

\* C3: no two AEAD encryptions by write_message_in_place of one session use
\* the same (write_key, nonce) pair, also when write_nonce has reached the
\* maximum and after a NonceOverflow was returned.
C3_NoNonceReuse == \A s \in Slots : ~reused[s]

\* C4: a fresh session has write_nonce = 0, after N successful writes
\* write_nonce = N, a failed write leaves it unchanged; the same for
\* read_nonce and successful reads.  wire[s] holds one frame per successful
\* write of s, accepted[s] counts the successful reads of s.
C4_NonceCountsSuccesses ==
    \A s \in Slots :
       sess[s] # NoSession =>
          /\ sess[s].write_nonce = Len(wire[s])
          /\ sess[s].read_nonce = accepted[s]

\* an end that has sent and its peer that has received, after a rejected write
C4_Witness ==
    /\ last.op = "write" /\ last.ret = "PayloadTooLarge"
    /\ sess[last.slot].write_nonce >= 1
    /\ sess[Peer(last.slot)].read_nonce >= 1

\* the frames the peer of s has produced, as the network may hand them to s
Deliverable(s) ==
    {VaryFrame(wire[Peer(s)][i], v) :
        i \in 1..Len(wire[Peer(s)]), v \in FrameVariations}
\* the messages an end may send that pass the size check
Sendable(s) ==
    {m \in AppMsgs(Len(wire[s]) + 1) : m.len <= MAX_SIZE_NOISE_MSG - AES_GCM_TAGLEN}
NeverDecreases ==
    \A s \in Slots :
       sess[s] # NoSession =>
          /\ sess'[s].write_nonce >= sess[s].write_nonce
          /\ sess'[s].read_nonce >= sess[s].read_nonce

\* C5 as stated: a write (a read) made when write_nonce (read_nonce) holds
\* the maximum returns NonceOverflow, and no counter ever decreases.
C5_AsStated ==
    [][/\ NeverDecreases
       /\ \A s \in Slots :
             /\ (sess[s] # NoSession /\ sess[s].write_nonce = U64_MAX
                   /\ OnSession(last', s) /\ last'.op = "write")
                => last'.ret = "NonceOverflow"
             /\ (sess[s] # NoSession /\ sess[s].read_nonce = U64_MAX
                   /\ OnSession(last', s) /\ last'.op = "read")
                => last'.ret = "NonceOverflow"]_vars

\* C5: no nonce counter ever decreases, and when a counter holds the maximum
\* no call returns Ok or changes it.  A write made then on a valid session
\* with a payload within the size limit returns NonceOverflow; a closed
\* session returns SessionClosed and an oversize payload PayloadTooLarge
\* first.  A read made then returns NonceOverflow only for a frame that
\* authenticates under the maximum nonce; the peer's write never emits such
\* a frame, so every frame the peer produced is refused with another error.
C5_NoWrapAtMaximum ==
    [][/\ NeverDecreases
       /\ \A s \in Slots :
             /\ (sess[s] # NoSession /\ sess[s].write_nonce = U64_MAX) =>
                   /\ sess'[s].write_nonce = U64_MAX
                   /\ (OnSession(last', s) /\ last'.op = "write") =>
                         last'.ret \in {"NonceOverflow", "SessionClosed",
                                        "PayloadTooLarge"}
                   /\ Live(s) =>
                         \A m \in Sendable(s) :
                            write_message_in_place(sess[s], m).ret = "NonceOverflow"
             /\ (sess[s] # NoSession /\ sess[s].read_nonce = U64_MAX) =>
                   /\ sess'[s].read_nonce = U64_MAX
                   /\ (OnSession(last', s) /\ last'.op = "read") =>
                         last'.ret \notin {"Ok", "NonceOverflow"}
                   /\ \A buf \in Deliverable(s) :
                         read_message_in_place(sess[s], buf).ret
                            \notin {"Ok", "NonceOverflow"}]_vars

\* a write has just returned NonceOverflow while the peer's read counter is
\* at the maximum as well
C5_Witness ==
    /\ last.op = "write" /\ last.ret = "NonceOverflow"
    /\ sess[last.slot].write_nonce = U64_MAX
    /\ sess[Peer(last.slot)].read_nonce = U64_MAX

\* C6: after a handshake on unmodified messages the initiator's write key is
\* the responder's read key and the responder's write key the initiator's
\* read key (initiator write = first half, read = second half of the final
\* split), and what one end encrypts the other decrypts to the same
\* plaintext, in both directions.
C6_RoundTrip ==
    (sess["ini"] # NoSession /\ sess["resp"] # NoSession) =>
       /\ sess["ini"].write_key = sess["resp"].read_key
       /\ sess["resp"].write_key = sess["ini"].read_key
       /\ sess["ini"].write_key.half = 1 /\ sess["ini"].read_key.half = 2
       /\ sess["ini"].write_key # sess["ini"].read_key
       /\ \A s \in Slots :
             (Live(s) /\ Live(Peer(s))
                /\ sess[s].write_nonce = sess[Peer(s)].read_nonce
                /\ sess[s].write_nonce < U64_MAX) =>
                \A m \in Sendable(s) :
                   LET w == write_message_in_place(sess[s], m)
                       r == read_message_in_place(sess[Peer(s)],
                                                  VaryFrame(w.frame, "none"))
                   IN  w.ret = "Ok" /\ r.ret = "Ok" /\ r.out = m
       /\ (last.op = "read" /\ last.ret = "Ok") =>
             last.out = Data(accepted[last.slot], MsgLen)

\* both ends have decrypted a message of the other
C6_Witness ==
    /\ sess["ini"] # NoSession /\ sess["resp"] # NoSession
    /\ sess["ini"].read_nonce >= 1 /\ sess["resp"].read_nonce >= 1
    /\ last.op = "read" /\ last.ret = "Ok"

\* the call just made was handed a message with one bit flipped
Tampered(call) ==
    call.var \in BitFlips /\ call.op \in {"parse", "finalize", "read"}
\* a call that returned Ok returned the plaintext its sender encrypted
PlaintextIsSenders ==
    /\ (last.op = "parse" /\ last.ret = "Ok") => last.out = InitPayload
    /\ (last.op = "finalize" /\ last.ret = "Ok") => last.out = RespPayload
    /\ (last.op = "read" /\ last.ret = "Ok") =>
          last.out = wire[Peer(last.slot)][accepted[last.slot]].pt

\* C7 as stated: a parse, finalize or read handed a message with one bit
\* flipped fails with Decrypt, and none returns Ok with another plaintext
\* than the sender's.
C7_AsStated ==
    /\ Tampered(last) => last.ret = "Decrypt"
    /\ PlaintextIsSenders

\* C7: parse_client_init_message and finalize_connection handed a message
\* with one bit flipped fail with Decrypt; read_message_in_place handed a
\* frame with one bit flipped fails with Decrypt and closes the session when
\* the session is still valid, and with SessionClosed when an earlier
\* failure has closed it; none ever returns Ok with another plaintext than
\* the one the sender encrypted.
C7_TamperDetected ==
    /\ (Tampered(last) /\ last.op # "read") => last.ret = "Decrypt"
    /\ (Tampered(last) /\ last.op = "read") =>
          (last.ret \in {"Decrypt", "SessionClosed"} /\ Dead(last.slot))
    /\ \A s \in Slots : \A i \in 1..Len(wire[Peer(s)]) :
          sess[s] # NoSession =>
             LET r == read_message_in_place(sess[s],
                                            VaryFrame(wire[Peer(s)][i], "flip_p"))
             IN  /\ Live(s) => (r.ret = "Decrypt" /\ ~r.session.valid)
                 /\ Dead(s) => r.ret = "SessionClosed"
                 /\ r.out = NoPlain
    /\ PlaintextIsSenders

\* the responder's session has just refused the peer's first frame, which
\* arrived with one bit flipped, with a Decrypt error
C7_Witness ==
    /\ Tampered(last) /\ last.op = "read" /\ last.slot = "resp"
    /\ last.ret = "Decrypt" /\ last.next
    /\ accepted["resp"] = 0

\* C8: a handshake state is consumed exactly once.  No two sessions are
\* derived from the same InitiatorHandshakeState or ResponderHandshakeState,
\* and a state whose finalize_connection or respond_to_client failed never
\* produces a session afterwards.
C8_ConsumedOnce ==
    \A r \in Slots : derived[r].n <= 1 /\ ~derived[r].after_failure

\* C9: a handshake has no partial success.  Each handshake call returns its
\* complete result or an error with no handshake state, no message and no
\* session; a session exists only after finalize_connection (initiator) or
\* respond_to_client (responder) succeeded, and is then valid with
\* write_nonce = read_nonce = 0.
C9_NoPartialHandshake ==
    /\ last.op = "initiate" =>
          (last.ret = "Ok" /\ ihs # NoIhs /\ ihs_n = 1 /\ msg1 # NoInitMsg)
    /\ (last.op = "parse" /\ last.ret = "Ok") => (rhs # NoRhs /\ rhs_n = 1)
    /\ (last.op = "parse" /\ last.ret # "Ok") =>
          (rhs = NoRhs /\ rhs_n = 0 /\ last.out = NoPlain)
    /\ (last.op \in {"respond", "finalize"} /\ last.ret = "Ok") =>
          /\ Live(last.slot)
          /\ sess[last.slot].write_nonce = 0 /\ sess[last.slot].read_nonce = 0
          /\ sess[last.slot].write_key # NoKey /\ sess[last.slot].read_key # NoKey
    /\ (last.op \in {"respond", "finalize"} /\ last.ret # "Ok") =>
          (sess[last.slot] = NoSession /\ last.out = NoPlain)
    /\ (last.op = "respond" /\ last.ret # "Ok") => msg2 = {}
    /\ \A s \in Slots : sess[s] # NoSession <=> derived[s].n >= 1
    /\ \A s \in Slots : sess[s] = NoSession => (wire[s] = <<>> /\ accepted[s] = 0)

\* the responder holds a session while finalize_connection has just failed
\* and left the initiator with none
C9_Witness ==
    /\ last.op = "finalize" /\ last.ret # "Ok"
    /\ sess["ini"] = NoSession /\ ihs_n = 0
    /\ Live("resp")

\* the call just made was a read handed, unmodified, a frame that is not the
\* next one the peer produced
OutOfOrder(call) == call.op = "read" /\ call.var = "none" /\ ~call.next

\* C10 as stated: a read handed a frame other than the next one its peer
\* produced fails with Decrypt, returns no plaintext and leaves the session
\* invalid.
C10_AsStated ==
    OutOfOrder(last) =>
       (last.ret = "Decrypt" /\ last.out = NoPlain /\ Dead(last.slot))

\* C10: a frame other than the next one the peer produced is never accepted.
\* Handed to a valid session, read_message_in_place fails with Decrypt,
\* returns no plaintext and closes the session; handed to a session that an
\* earlier failure has closed (a frame delivered after a later one) it fails
\* with SessionClosed.
C10_OutOfOrderRefused ==
    /\ OutOfOrder(last) =>
          /\ last.ret \in {"Decrypt", "SessionClosed"}
          /\ last.out = NoPlain
          /\ Dead(last.slot)
    /\ \A s \in Slots : \A i \in 1..Len(wire[Peer(s)]) :
          (sess[s] # NoSession /\ i # sess[s].read_nonce + 1) =>
             LET r == read_message_in_place(sess[s],
                                            VaryFrame(wire[Peer(s)][i], "none"))
             IN  /\ Live(s) => (r.ret = "Decrypt" /\ ~r.session.valid)
                 /\ Dead(s) => r.ret = "SessionClosed"
                 /\ r.out = NoPlain /\ r.session.read_nonce = sess[s].read_nonce

\* a reader that has accepted a frame has just refused, with Decrypt, an
\* unmodified frame that was not the next one
C10_Witness ==
    /\ OutOfOrder(last) /\ last.ret = "Decrypt"
    /\ accepted[last.slot] >= 1

(***************************************************************************)
(* Properties of the negotiation.                                          *)
(***************************************************************************)
Negotiated == negotiated # NotNegotiated
SameNetwork ==
    /\ our_handshake.chain_id = their_handshake.chain_id
    /\ our_handshake.network_id = their_handshake.network_id
\* the protocols both sides list under version v
CommonProtocols(v) ==
    {p \in ProtocolIds :
        /\ contains(our_handshake.supported_protocols[v], p)
        /\ contains(their_handshake.supported_protocols[v], p)}
\* the versions both sides support with at least one common protocol
UsableVersions ==
    {v \in DOMAIN our_handshake.supported_protocols
              \cap DOMAIN their_handshake.supported_protocols :
        CommonProtocols(v) # {}}
Highest(vs) == CHOOSE v \in vs : \A w \in vs : w <= v

\* C11: perform_handshake fails, with no version and no protocol set,
\* whenever the two HandshakeMsgs differ in chain_id or in network_id,
\* whatever protocols they support.
C11_MismatchFails ==
    (Negotiated /\ ~SameNetwork) =>
       /\ negotiated.ret \in {"Invalid ChainId", "Invalid NetworkId"}
       /\ (our_handshake.chain_id # their_handshake.chain_id) =>
             negotiated.ret = "Invalid ChainId"
       /\ negotiated.version = NoVersion
       /\ negotiated.protocols = empty

\* identical, non-empty protocol sets, chain id 1 against 2: failure
C11_Witness ==
    /\ Negotiated
    /\ our_handshake.supported_protocols = their_handshake.supported_protocols
    /\ UsableVersions # {}
    /\ our_handshake.chain_id = MAINNET /\ their_handshake.chain_id = TESTNET
    /\ our_handshake.network_id = their_handshake.network_id
    /\ negotiated.ret = "Invalid ChainId"

\* C12: with matching chain_id and network_id, perform_handshake returns
\* (v, local[v] AND remote[v]) for the highest version v that both sides
\* support with a non-empty intersection; local {V1: {StorageServiceRpc,
\* ConsensusRpcBcs}} against remote {V1: {StorageServiceRpc}} gives
\* (V1, {StorageServiceRpc}).
C12_HighestCommonVersion ==
    /\ (Negotiated /\ SameNetwork /\ UsableVersions # {}) =>
          LET v == Highest(UsableVersions)
          IN  /\ negotiated.ret = "Ok"
              /\ negotiated.version = v
              /\ negotiated.protocols =
                    intersect(our_handshake.supported_protocols[v],
                              their_handshake.supported_protocols[v])
              /\ \A p \in ProtocolIds :
                    contains(negotiated.protocols, p) <=> p \in CommonProtocols(v)
    /\ (/\ Negotiated /\ SameNetwork
        /\ our_handshake.supported_protocols =
              (V1 :> from_iter({StorageServiceRpc, ConsensusRpcBcs}))
        /\ their_handshake.supported_protocols =
              (V1 :> from_iter({StorageServiceRpc})))
       => (/\ negotiated.ret = "Ok" /\ negotiated.version = V1
           /\ negotiated.protocols = from_iter({StorageServiceRpc}))

\* the highest common version has no common protocol and a lower one has:
\* the lower one is returned
C12_Witness ==
    /\ Negotiated /\ SameNetwork
    /\ negotiated.ret = "Ok"
    /\ \E v \in DOMAIN our_handshake.supported_protocols
                   \cap DOMAIN their_handshake.supported_protocols :
          v > negotiated.version
    /\ Cardinality(CommonProtocols(negotiated.version)) = 1
    /\ Len(our_handshake.supported_protocols[negotiated.version])
          # Len(their_handshake.supported_protocols[negotiated.version])

\* C13: with matching chain_id and network_id, perform_handshake fails with
\* "No common protocols" exactly when no version supported by both sides has
\* a non-empty intersection, and never returns Ok with an empty set.
C13_NoCommonProtocols ==
    /\ (Negotiated /\ SameNetwork) =>
          (negotiated.ret = "No common protocols" <=> UsableVersions = {})
    /\ (Negotiated /\ negotiated.ret = "Ok") =>
          /\ ~is_empty(negotiated.protocols)
          /\ \E p \in ProtocolIds : contains(negotiated.protocols, p)
    /\ (Negotiated /\ negotiated.ret # "Ok") =>
          (negotiated.version = NoVersion /\ negotiated.protocols = empty)

\* local {V1: {ConsensusRpcBcs}} against remote {V1: {StorageServiceRpc}}
C13_Witness ==
    /\ Negotiated /\ SameNetwork
    /\ our_handshake.supported_protocols = (V1 :> from_iter({ConsensusRpcBcs}))
    /\ their_handshake.supported_protocols = (V1 :> from_iter({StorageServiceRpc}))
    /\ negotiated.ret = "No common protocols"

\* C14: NoiseStream::read_message reads exactly 4 length bytes first, and a
\* declared length above 65535 makes it fail before the payload buffer is
\* allocated and before any payload byte is read from the inner stream.
C14_OversizeRejectedBeforePayload ==
    io.op = "read_message" =>
        /\ io.length_bytes = LEN_PREFIX_SIZE
        /\ io.declared > MAX_SIZE_NOISE_MSG =>
              /\ io.ret = "Message too large"
              /\ ~io.allocated
              /\ io.payload_bytes = 0
              /\ io.out = NoPlain
        /\ io.allocated => io.declared <= MAX_SIZE_NOISE_MSG
        /\ io.payload_bytes > 0 => io.allocated

\* a declared length of 65536 has been rejected while a frame waits behind it
C14_Witness ==
    /\ io.op = "read_message"
    /\ io.declared = MAX_SIZE_NOISE_MSG + 1
    /\ io.ret = "Message too large"
    /\ inbound # <<>>

\* C15: once read_message has rejected an oversize declared length the
\* session is invalid and no later read_message or write_message succeeds, so
\* the bytes that follow are never read as a new frame.
C15_RejectionClosesStream ==
    /\ rejected > 0 => ~sess["ini"].valid
    /\ ~ok_after_reject
    /\ (rejected > 0 /\ io.op = "read_message") => io.out = NoPlain

\* the calls Transport::handshake has made that returned Ok
Done(op) == \E i \in 1..Len(trace) : trace[i].op = op /\ trace[i].ret = "Ok"

\* C16 as stated: the first bytes the initiator puts on the wire are the
\* Noise init message of 32 + (32+16) + (payload_len+16) bytes, with nothing
\* before it.
C16_AsStated ==
    sent # <<>> =>
        /\ sent[1].what = "noise_msg"
        /\ sent[1].len = 32 + (32 + 16) + (InitPayload.len + 16)

\* C16: the initiator first puts the 64 prologue bytes on the wire (its peer
\* id, then the remote public key) and directly after them, with no length
\* prefix, the Noise init message of 32 + (32+16) + (payload_len+16) bytes:
\* ephemeral public key, encrypted static key, encrypted payload.
C16_PrologueThenInitMessage ==
    /\ Len(sent) >= 1 => sent[1] = Bytes("our_peer_id", 32, cfg["ini"])
    /\ Len(sent) >= 2 => sent[2] = Bytes("remote_public_key", 32, ihs.rs.key)
    /\ Len(sent) >= 3 =>
          /\ Len(sent) = 3
          /\ Size(SubSeq(sent, 1, 2)) = 64
          /\ sent[3].what = "noise_msg"
          /\ sent[3].val = msg1
          /\ sent[3].len = 32 + (32 + 16) + (InitPayload.len + 16)
          /\ msg1.e = PublicKeyOf(ihs.e)
          /\ msg1.s.pt = PkPlain(PublicKeyOf(cfg["ini"]))
          /\ msg1.p.pt = InitPayload
          /\ sent[3].len = X25519_LEN + encrypted_len(msg1.s.pt.len)
                              + encrypted_len(msg1.p.pt.len)
    /\ Done("write_all") => Len(sent) = 3

\* the server has split 64 bytes off the client message, parsed the rest as
\* the Noise init message and answered
C16_Witness ==
    /\ Len(sent) = 3
    /\ server = "responded"
    /\ last.op = "parse" /\ last.ret = "Ok"

\* C17: Transport::handshake makes one round trip in a fixed order: it writes
\* the 64 prologue bytes and the 104-byte init message (168 bytes) and
\* flushes, only then reads exactly 48 response bytes, only then calls
\* finalize_connection, and returns a session only if that succeeded; it
\* reads no response byte before the whole request is written.
C17_OneRoundTripInOrder ==
    /\ Len(trace) <= Len(HandshakeOrder)
    /\ \A i \in 1..Len(trace) :
          /\ trace[i].op = HandshakeOrder[i]
          /\ i < Len(trace) => trace[i].ret = "Ok"
    /\ Done("write_all") =>
          /\ Size(sent) = 168
          /\ Size(SubSeq(sent, 1, 2)) = 64
          /\ sent[3].len = 104 /\ sent[3].val.p.pt.len = 8
          /\ trace[2].bytes = 168
    /\ response.taken > 0 =>
          /\ Size(sent) = 168
          /\ Done("write_all") /\ Done("flush") /\ flushed
    /\ response.taken <= 48
    /\ Done("read_exact") =>
          /\ trace[4].bytes = 48 /\ response.taken = 48
          /\ server_response.len = 48
    /\ Len(trace) = 5 => Done("read_exact")
    /\ returned = "Ok" <=> Done("finalize_connection")
    /\ returned = "Ok" => sess["ini"] # NoSession /\ sess["ini"].valid
    /\ returned # "Ok" => sess["ini"] = NoSession

\* the handshake returned a session and left the 49th byte of the server
\* on the stream
C17_Witness ==
    /\ returned = "Ok"
    /\ response.len = 1
    /\ Len(trace) = 5

\* a StorageServiceRequest is among the frames written to the connection
RequestSent ==
    \E i \in 1..Len(outbound) :
        outbound[i].body[1].pt.id[1] = "StorageServiceRequest"

\* C18: on a connection made by connect_to_peer our HandshakeMsg is the first
\* framed message sent after the Noise handshake and the peer's HandshakeMsg
\* the first framed message read; perform_handshake runs after both, and no
\* StorageServiceRequest is sent on a connection whose negotiation failed or
\* has not completed.
C18_NegotiationBeforeRequests ==
    /\ outbound # <<>> =>
          /\ outbound[1].body[1].pt =
                HandshakeMsg_to_bytes(HandshakeMsg_new(MAINNET, "Public"))
          /\ outbound[1].body[1].nonce = 0
    /\ Len(conn_log) >= 1 =>
          /\ conn_log[1].op = "write_message"
          /\ conn_log[1].ret = "Ok" => conn_log[1].what = "HandshakeMsg"
    /\ Len(conn_log) >= 2 =>
          /\ conn_log[1].ret = "Ok"
          /\ conn_log[2].op = "read_message"
    /\ Len(conn_log) >= 3 =>
          /\ conn_log[2] = ConnCall("read_message", "HandshakeMsg", "Ok")
          /\ conn_log[3].op = "perform_handshake"
          /\ wire["resp"][1].pt = HandshakeMsg_to_bytes(their_handshake)
    /\ Negotiated =>
          /\ Len(conn_log) >= 3
          /\ conn_log[3].ret = negotiated.ret
    /\ RequestSent =>
          /\ negotiated.ret = "Ok"
          /\ SameNetwork /\ UsableVersions # {}
          /\ Len(conn_log) >= 4
          /\ conn_log[4] = ConnCall("write_message", "StorageServiceRequest", "Ok")
          /\ outbound[1].body[1].pt.id[1] = "HandshakeMsg"
    /\ negotiated.ret # "Ok" => ~RequestSent /\ Len(outbound) <= 1

\* the request went out after a negotiation with a peer whose protocol set
\* is a byte longer than ours
C18_Witness ==
    /\ RequestSent
    /\ conn_pc = "recv_response"
    /\ Len(their_handshake.supported_protocols[V1])
          > Len(our_handshake.supported_protocols[V1])

\* the errors with which read_message_in_place rejects its input
ReadRejections == {"ResponseBufferTooSmall", "ReceivedMsgTooLarge", "Decrypt"}

\* C19: read_message_in_place on a valid session rejects an input shorter
\* than the 16-byte tag, an input longer than the maximum message size and
\* an input that fails AEAD verification, and in each of the three cases the
\* session is invalid when the error is returned, read_nonce is unchanged
\* and no plaintext is returned.
C19_RejectedReadClosesSession ==
    [][\A s \in Slots :
          (OnSession(last', s) /\ last'.op = "read" /\ sess[s].valid) =>
             /\ last'.var = "cut_tag" => last'.ret = "ResponseBufferTooSmall"
             /\ last'.var = "pad_big" => last'.ret = "ReceivedMsgTooLarge"
             /\ last'.var = "flip_p" => last'.ret = "Decrypt"
             /\ last'.ret \in ReadRejections =>
                   /\ ~sess'[s].valid
                   /\ sess'[s] = [sess[s] EXCEPT !.valid = FALSE]
                   /\ sess'[s].read_nonce = sess[s].read_nonce
                   /\ accepted'[s] = accepted[s]
                   /\ last'.out = NoPlain]_vars

\* a session that had read a frame has rejected an input longer than the
\* maximum
C19_Witness ==
    /\ last.op = "read" /\ last.ret = "ReceivedMsgTooLarge"
    /\ sess[last.slot].read_nonce >= 1
    /\ ~sess[last.slot].valid

RespondRefused ==
    [ret |-> "ResponseBufferTooSmall", session |-> NoSession, msg |-> NoRespMsg,
     rng_used |-> FALSE]

\* C21: respond_to_client with a response buffer shorter than
\* 32 + payload_len + 16 returns ResponseBufferTooSmall: nothing is written to
\* the buffer, no ephemeral key is drawn, no cryptographic operation is
\* performed and no session is produced; a buffer of that length is taken.
C21_ShortBufferIsHardError ==
    [][/\ rhs_n >= 1 =>
             \A payload \in {RespPayload, Data(0, MsgLen)} :
                /\ \A buffer_len \in {0, X25519_LEN, 32 + payload.len + 16 - 1} :
                      respond_to_client(Ephemeral(rng), rhs, payload, buffer_len)
                         = RespondRefused
                /\ respond_to_client(Ephemeral(rng), rhs, payload,
                                     32 + payload.len + 16).ret = "Ok"
       /\ (last'.op = "respond" /\ last'.ret = "ResponseBufferTooSmall") =>
             /\ rng' = rng
             /\ msg2' = msg2
             /\ sess' = sess
             /\ sealed' = sealed
             /\ ~last'.aead
             /\ derived'["resp"].n = derived["resp"].n]_vars

\* the responder was handed a buffer one byte short: no response, no session
C21_Witness ==
    /\ last.op = "respond" /\ last.ret = "ResponseBufferTooSmall"
    /\ msg2 = {} /\ sess["resp"] = NoSession
    /\ rhs # NoRhs /\ rhs_n = 0

\* the number of times Transport::handshake has called op
Calls(log, op) == Cardinality({i \in 1..Len(log) : log[i].op = op})

\* C22: within one call of Transport::connect there is at most one
\* initiate_connection and at most one finalize_connection, and after any
\* failure (TCP connect, write, flush, read, finalize) the call returns the
\* error without writing another byte, reading another byte or starting
\* another handshake attempt.
C22_NoInternalRetry ==
    [][/\ \A op \in {"initiate_connection", "write_all", "flush", "read_exact",
                     "finalize_connection"} : Calls(trace', op) <= 1
       /\ \A i \in 1..Len(trace) :
             trace[i].ret # "Ok" =>
                (i = Len(trace) /\ hs_pc = "failed")
       /\ hs_pc = "failed" =>
             /\ returned \notin {"none", "Ok"}
             /\ sess["ini"] = NoSession
             /\ UNCHANGED <<hs_pc, returned, sent, flushed, trace, ihs, ihs_n,
                            msg1, server_response>>
             /\ response'.taken = response.taken
       /\ hs_pc = "returned" => UNCHANGED <<hs_pc, returned, sent, trace>>]_vars

\* the read of the response failed after the whole request was written, and
\* the server has since closed
C22_Witness ==
    /\ hs_pc = "failed"
    /\ Len(trace) = 4 /\ trace[4].ret = "Failed to read server response"
    /\ Len(sent) = 3
    /\ response.closed

\* the handshake of connection c run alone: its calls are the only ones made
AloneInit(c) == ConnInit(c, 0)
AloneParse(c) == ConnParse(c, AloneInit(c).msg)
AloneResponse(c) == VaryResp(ConnRespond(c, AloneParse(c).state, 1).msg, conns[c].damage)
AloneFinalize(c) == finalize_connection(cfg["ini"], AloneInit(c).state, AloneResponse(c))
\* what the task of c holds is what it holds at the same place when run alone
AsAlone(c) ==
    LET k == conns[c]
        blank == Fresh(k.remote, k.damage)
    IN  CASE k.pc = "initiate_connection" -> k = blank
          [] k.pc = "read_exact" /\ k.resp = NoRespMsg ->
                k = [blank EXCEPT !.pc = "read_exact", !.hs = AloneInit(c).state,
                                  !.msg = AloneInit(c).msg]
          [] k.pc = "read_exact" /\ k.resp # NoRespMsg ->
                /\ AloneParse(c).ret = "Ok"
                /\ k = [blank EXCEPT !.pc = "read_exact", !.hs = AloneInit(c).state,
                                     !.msg = AloneInit(c).msg,
                                     !.resp = AloneResponse(c)]
          [] k.pc = "connected" ->
                /\ AloneParse(c).ret = "Ok" /\ AloneFinalize(c).ret = "Ok"
                /\ k.session = [AloneFinalize(c).session EXCEPT
                                   !.write_nonce = k.session.write_nonce]
                /\ k.session.valid /\ k.session.read_nonce = 0
                /\ k.out = AloneFinalize(c).payload
                /\ k.hs = NoIhs
          [] k.pc = "failed" ->
                /\ AloneParse(c).ret # "Ok" \/ AloneFinalize(c).ret # "Ok"
                /\ k.session = NoSession /\ k.hs = NoIhs /\ k.out = NoPlain
          [] k.pc = "dropped" -> k = [blank EXCEPT !.pc = "dropped"]

HandshakeSeals ==
    UNION {(IF conns[c].msg = NoInitMsg THEN {}
            ELSE {<<c, "s", conns[c].msg.s>>, <<c, "payload", conns[c].msg.p>>})
           \cup (IF conns[c].resp = NoRespMsg THEN {}
                 ELSE {<<c, "response", conns[c].resp.p>>}) : c \in Conns}

LenPayloads == {Data(0, len) : len \in {0, 1, TIMESTAMP_SIZE, MsgLen + MsgLen}}

\* C25: for every payload the message of initiate_connection is exactly
\* 32 + (32 + 16) + (payload_len + 16) bytes long and respond_to_client writes
\* exactly 32 + (payload_len + 16) bytes at the start of the caller's buffer,
\* 48 for the empty payload, however long the buffer is; both equal
\* handshake_init_msg_len and handshake_resp_msg_len.
C25_HandshakeMessageLengths ==
    /\ \A payload \in LenPayloads, remote \in StaticKeys :
          LET r == initiate_connection(cfg["ini"], Ephemeral(rng),
                                       Prologue(cfg["ini"], remote),
                                       PublicKeyOf(remote), payload)
          IN  /\ r.msg.len = 32 + (32 + 16) + (payload.len + 16)
              /\ r.msg.len = handshake_init_msg_len(payload.len)
              /\ r.msg.len = X25519_LEN + SealedLen(r.msg.s) + SealedLen(r.msg.p)
    /\ rhs_n >= 1 =>
          \A payload \in LenPayloads, spare \in {0, 1, MsgLen} :
             LET r == respond_to_client(Ephemeral(rng), rhs, payload,
                                        32 + (payload.len + 16) + spare)
             IN  /\ r.ret = "Ok"
                 /\ r.msg.len = 32 + (payload.len + 16)
                 /\ r.msg.len = handshake_resp_msg_len(payload.len)
                 /\ r.msg.len = X25519_LEN + SealedLen(r.msg.p)
                 /\ payload.len = 0 => r.msg.len = 48
    /\ msg1 # NoInitMsg => msg1.len = 32 + (32 + 16) + (InitPayload.len + 16)
    /\ \A m \in msg2 : m.len = 32 + (RespPayload.len + 16)

\* both handshake messages were built, the response for the empty payload
C25_Witness ==
    /\ msg1 # NoInitMsg /\ msg1.len = 104
    /\ \E m \in msg2 : m.len = 48
    /\ last.op = "respond" /\ last.ret = "Ok"

\* C26: in an honest handshake the remote static key returned by
\* parse_client_init_message, and reported by get_remote_static of the
\* responder's session, is the initiator's static public key; the decrypted
\* payload is the initiator's payload, the 8 bytes of Transport::handshake;
\* the initiator's session reports the responder key it dialled.
C26_HonestHandshakeValues ==
    /\ msg1 # NoInitMsg =>
          \A prologue \in RespPrologues, v \in InitVariations :
             LET r == parse_client_init_message(cfg["resp"], prologue,
                                                VaryInit(msg1, v))
             IN  r.ret = "Ok" =>
                    /\ r.rs = PublicKeyOf(cfg["ini"])
                    /\ r.state.rs = r.rs
                    /\ r.payload = InitPayload
                    /\ r.payload.len = 8
    /\ sess["resp"] # NoSession =>
          get_remote_static(sess["resp"]) = PublicKeyOf(cfg["ini"])
    /\ sess["ini"] # NoSession =>
          /\ get_remote_static(sess["ini"]) = ihs.rs
          /\ ihs.rs = PublicKeyOf(cfg["resp"])

\* a handshake between two different key pairs has completed at both ends
C26_Witness ==
    /\ cfg["ini"] # cfg["resp"]
    /\ sess["ini"] # NoSession /\ sess["resp"] # NoSession
    /\ last.op = "finalize" /\ last.ret = "Ok" /\ last.var = "none"
    /\ rhs.rs = PublicKeyOf(cfg["ini"])

\* C27: NoiseStream::write_message emits, in order, a 4-byte length prefix
\* L = payload_len + 16, then exactly L bytes (the ciphertext, then the tag),
\* then flushes, and returns Ok only after all three completed: it never
\* returns Ok after writing only part of a frame.
C27_WriteMessageEmitsWholeFrame ==
    /\ \A m \in AppMsgs(Len(wire["ini"]) + 1), inner \in InnerStreams :
          LET r == write_message(sess["ini"], m, inner)
              L == m.len + 16
          IN  /\ r.ret = "Ok" =>
                    /\ r.declared = L
                    /\ r.length_bytes = 4 /\ r.payload_bytes = L /\ r.flushed
                    /\ r.written = <<FrameItem([len |-> L, ct |-> r.frame])>>
                    /\ r.frame.pt = m
              /\ r.payload_bytes > 0 => r.length_bytes = 4
              /\ r.flushed => r.payload_bytes = L
              /\ (r.length_bytes < 4 \/ r.payload_bytes < L \/ ~r.flushed)
                    => r.ret # "Ok"
    /\ (io.op = "write_message" /\ io.ret = "Ok") =>
          /\ io.length_bytes = 4 /\ io.payload_bytes = io.declared /\ io.flushed
          /\ wire["ini"] # <<>> /\ outbound # <<>>
          /\ io.declared = wire["ini"][Len(wire["ini"])].pt.len + 16
          /\ outbound[Len(outbound)]
                = FrameItem([len |-> io.declared, ct |-> wire["ini"][Len(wire["ini"])]])
    /\ (io.op = "write_message" /\ io.ret # "Ok") =>
          ~(io.length_bytes = 4 /\ io.payload_bytes = io.declared /\ io.flushed)

\* after a whole frame, a write failed within the buffer of the next one
C27_Witness ==
    /\ io.op = "write_message" /\ io.ret = "io error"
    /\ io.length_bytes = 4
    /\ io.payload_bytes > 0 /\ io.payload_bytes < io.declared
    /\ Len(outbound) = 2 /\ outbound[1].body # <<>> /\ outbound[2].body = <<>>

\* the ProtocolIds two sets both contain
Shared(a, b) == {p \in ProtocolId_all : contains(a, p) /\ contains(b, p)}
\* the bits of a set are all discriminants of ProtocolId
OnlyProtocolIds(set) ==
    \A i \in 1..Len(set) : \A bit \in set[i] : 8 * (i - 1) + bit \in ProtocolId_all
\* intersect is set intersection on the ProtocolIds
ContainsBoth ==
    \A p \in ProtocolId_all :
       contains(meet, p) <=> (contains(set_a, p) /\ contains(set_b, p))

\* C28 as stated: intersect is set intersection for every ProtocolId and all
\* sets, and a.intersect(b).is_empty() holds exactly when a and b share no
\* ProtocolId.
C28_AsStated ==
    meet # NotComputed =>
       /\ ContainsBoth
       /\ is_empty(meet) <=> Shared(set_a, set_b) = {}

\* C28: ProtocolIdSet::intersect computes set intersection: for every
\* ProtocolId p and all sets a and b, a.intersect(b).contains(p) holds exactly
\* when a.contains(p) and b.contains(p), also when the byte vectors differ in
\* length; a.intersect(b).is_empty() holds exactly when a and b have no bit
\* in common, which is when they share no ProtocolId if the bits of one of
\* them are all ProtocolIds.
C28_IntersectIsSetIntersection ==
    meet # NotComputed =>
       /\ ContainsBoth
       /\ Len(meet) = IF Len(set_a) <= Len(set_b) THEN Len(set_a) ELSE Len(set_b)
       /\ is_empty(meet) <=>
             \A i \in 1..Len(meet) : set_a[i] \cap set_b[i] = ZeroByte
       /\ is_empty(meet) => Shared(set_a, set_b) = {}
       /\ (OnlyProtocolIds(set_a) \/ OnlyProtocolIds(set_b)) =>
             (is_empty(meet) <=> Shared(set_a, set_b) = {})

\* two sets of different lengths that share a ProtocolId were intersected
C28_Witness ==
    /\ meet # NotComputed
    /\ Len(set_a) > Len(set_b) /\ Len(set_b) > 0
    /\ Shared(set_a, set_b) # {} /\ ~is_empty(meet)
    /\ ~OnlyProtocolIds(set_a)

\* C29: after any sequence of insert calls from the empty set, contains(p) is
\* true exactly for the inserted ids: insert(p) makes contains(p) true, never
\* changes contains(q) for q other than p, and grows the byte vector only as
\* far as needed to hold bit p; is_empty() is true exactly when nothing was
\* inserted.
C29_InsertThenContains ==
    /\ \A p \in ProtocolId_all : contains(set_a, p) <=> p \in inserted
    /\ is_empty(set_a) <=> inserted = {}
    /\ \A p \in inserted : Len(set_a) >= p \div 8 + 1
    /\ set_a # empty => \E p \in inserted : Len(set_a) = p \div 8 + 1
    /\ \A p \in ProtocolId_all :
          LET next == insert(set_a, p)
          IN  /\ contains(next, p)
              /\ \A q \in ProtocolId_all \ {p} :
                    contains(next, q) <=> contains(set_a, q)
              /\ Len(next) = IF p \div 8 + 1 > Len(set_a)
                              THEN p \div 8 + 1 ELSE Len(set_a)

\* ids of one byte and of later bytes were inserted, the lower last
C29_Witness ==
    /\ inserted = {1, 7, 16, StorageServiceRpc}
    /\ Len(set_a) = 3
    /\ set_a[1] = {1, 7}

\* the end s is handed, unmodified, the frame that follows those it has read
NextInOrder(s) == VaryFrame(wire[Peer(s)][sess[s].read_nonce + 1], "none")

\* C30: for the two sessions of one completed handshake and a channel that
\* delivers every frame, unmodified and in order, the k-th successful read
\* returns exactly the plaintext of the k-th message written, in both
\* directions independently: writing in one direction never changes the
\* nonce of the other direction.
C30_InOrderDelivery ==
    [][\A s \in Slots :
          /\ (Live(s) /\ sess[s].read_nonce < Len(wire[Peer(s)])) =>
                LET k == sess[s].read_nonce + 1
                    r == read_message_in_place(sess[s], NextInOrder(s))
                IN  /\ r.ret = "Ok"
                    /\ r.out = wire[Peer(s)][k].pt
                    /\ r.out = Data(k, MsgLen)
                    /\ r.session.read_nonce = k
                    /\ r.session.write_nonce = sess[s].write_nonce
          /\ (accepted'[s] = accepted[s] + 1) =>
                /\ last'.op = "read" /\ last'.slot = s /\ last'.ret = "Ok"
                /\ last'.out = wire[Peer(s)][accepted'[s]].pt
                /\ sess'[s].read_nonce = accepted'[s]
                /\ sess'[s].write_nonce = sess[s].write_nonce
                /\ sess'[Peer(s)] = sess[Peer(s)]
          /\ sess[s] # NoSession =>
                /\ \A m \in Sendable(s) :
                      LET w == write_message_in_place(sess[s], m)
                      IN  /\ w.session.read_nonce = sess[s].read_nonce
                          /\ w.session.read_key = sess[s].read_key
                /\ sess'[s].write_nonce # sess[s].write_nonce =>
                      /\ sess'[s].read_nonce = sess[s].read_nonce
                      /\ sess'[Peer(s)] = sess[Peer(s)]]_vars

\* each end has read, in order, the two messages the other wrote, the
\* initiator after it had written its own
C30_Witness ==
    /\ \A s \in Slots : Live(s) /\ Len(wire[s]) = 2 /\ accepted[s] = 2
    /\ last.op = "read" /\ last.ret = "Ok" /\ last.out = Data(2, MsgLen)

\* the results a handshake call has for malformed input
HandshakeErrors == {"ReceivedMsgTooLarge", "MsgTooShort", "Decrypt"}

\* C31: malformed handshake input is rejected with a typed error chosen by
\* length: finalize_connection and parse_client_init_message return
\* ReceivedMsgTooLarge for more than 65535 bytes before any other work;
\* finalize_connection returns MsgTooShort for fewer than 32 bytes and
\* parse_client_init_message for fewer than 32 + 48 bytes; an AEAD failure at
\* either decryption step returns Decrypt; in each case no handshake state and
\* no session is returned.
C31_MalformedHandshakeInput ==
    /\ msg1 # NoInitMsg =>
          \A prologue \in RespPrologues, v \in InitVariations :
             LET m == VaryInit(msg1, v)
                 r == parse_client_init_message(cfg["resp"], prologue, m)
             IN  /\ r.ret \in HandshakeErrors \cup {"Ok"}
                 /\ m.len > 65535 <=> r.ret = "ReceivedMsgTooLarge"
                 /\ m.len < 32 + 48 <=> r.ret = "MsgTooShort"
                 /\ (m.len >= 32 + 48 /\ m.len <= 65535
                       /\ (~m.s.intact \/ ~m.p.intact)) => r.ret = "Decrypt"
                 /\ r.ret # "Ok" =>
                       r.state = NoRhs /\ r.rs = NoPk /\ r.payload = NoPlain
    /\ ihs # NoIhs =>
          \A answer \in msg2, v \in RespVariations :
             LET m == VaryResp(answer, v)
                 r == finalize_connection(cfg["ini"], ihs, m)
             IN  /\ r.ret \in HandshakeErrors \cup {"Ok"}
                 /\ m.len > 65535 <=> r.ret = "ReceivedMsgTooLarge"
                 /\ m.len < 32 <=> r.ret = "MsgTooShort"
                 /\ (m.len >= 32 /\ m.len <= 65535 /\ ~m.p.intact)
                       => r.ret = "Decrypt"
                 /\ r.ret # "Ok" => r.session = NoSession /\ r.payload = NoPlain
    /\ (last.op \in {"parse", "finalize"} /\ last.ret # "Ok") =>
          /\ last.ret \in HandshakeErrors
          /\ last.out = NoPlain
          /\ last.ret \in {"ReceivedMsgTooLarge", "MsgTooShort"} => ~last.aead
          /\ last.op = "parse" => rhs = NoRhs /\ rhs_n = 0
          /\ last.op = "finalize" => sess["ini"] = NoSession

\* the initiator was handed a response of more than 65535 bytes, after the
\* responder had accepted its message
C31_Witness ==
    /\ last.op = "finalize" /\ last.ret = "ReceivedMsgTooLarge"
    /\ last.var = "pad_big"
    /\ sess["ini"] = NoSession /\ sess["resp"] # NoSession

\* keys an initiator may dial: the static keys, and the responder's key with
\* its high bit set
DialledKeys ==
    {PublicKeyOf(k) : k \in StaticKeys} \cup {FlipHi(PublicKeyOf(cfg["resp"]))}

\* C32: parse_client_init_message succeeds only if the prologue given to the
\* responder equals the prologue the initiator used and the key the initiator
\* dialled equals the responder's own static public key; if either differs
\* the first AEAD opening fails and Decrypt is returned.
C32_PrologueAndKeyMustMatch ==
    /\ \A used \in RespPrologues, given \in RespPrologues, dialled \in DialledKeys :
          LET i == initiate_connection(cfg["ini"], Ephemeral(rng), used, dialled,
                                       InitPayload)
              r == parse_client_init_message(cfg["resp"], given, i.msg)
          IN  IF given = used /\ dialled = PublicKeyOf(cfg["resp"])
              THEN r.ret = "Ok"
              ELSE /\ r.ret = "Decrypt"
                   /\ ~opens_static(cfg["resp"], given, i.msg)
    /\ msg1 # NoInitMsg =>
          \A given \in RespPrologues :
             LET r == parse_client_init_message(cfg["resp"], given, msg1)
             IN  IF given = Prologue(cfg["ini"], ihs.rs.key)
                    /\ ihs.rs = PublicKeyOf(cfg["resp"])
                 THEN r.ret = "Ok"
                 ELSE /\ r.ret = "Decrypt"
                      /\ ~opens_static(cfg["resp"], given, msg1)
    /\ (last.op = "parse" /\ last.ret = "Ok") => ihs.rs = PublicKeyOf(cfg["resp"])

\* the responder, dialled by its own key, has refused the unmodified message
\* under another prologue
C32_Witness ==
    /\ last.op = "parse" /\ last.ret = "Decrypt" /\ last.var = "none"
    /\ ihs.rs = PublicKeyOf(cfg["resp"])
    /\ rhs = NoRhs

\* a.perform_handshake(b) and b.perform_handshake(a) agree
Symmetric(a, b) ==
    LET ab == perform_handshake(a, b)
        ba == perform_handshake(b, a)
    IN  /\ ab.ret = "Ok" <=> ba.ret = "Ok"
        /\ ab.ret = "Ok" =>
              /\ ab.version = ba.version
              /\ ab.protocols = ba.protocols

\* C33: perform_handshake is symmetric: a.perform_handshake(b) succeeds
\* exactly when b.perform_handshake(a) succeeds, and then both return the same
\* version and equal ProtocolIdSets, so the two ends of a connection agree on
\* the negotiated result.
C33_NegotiationIsSymmetric ==
    /\ Symmetric(our_handshake, their_handshake)
    /\ \A other \in PeerHandshakes : Symmetric(their_handshake, other)
    /\ negotiated # NotNegotiated =>
          LET theirs == perform_handshake(their_handshake, our_handshake)
          IN  /\ negotiated.ret = "Ok" <=> theirs.ret = "Ok"
              /\ negotiated.ret = "Ok" =>
                    /\ theirs.version = negotiated.version
                    /\ theirs.protocols = negotiated.protocols

\* the negotiation succeeded between maps of different versions, the peer's
\* set a byte longer than ours and holding more than the common protocols
C33_Witness ==
    /\ negotiated.ret = "Ok"
    /\ DOMAIN our_handshake.supported_protocols
          # DOMAIN their_handshake.supported_protocols
    /\ Len(their_handshake.supported_protocols[negotiated.version])
          > Len(our_handshake.supported_protocols[negotiated.version])
    /\ their_handshake.supported_protocols[negotiated.version]
          # Append(negotiated.protocols, ZeroByte)

\* payloads around the writer's bound
BoundaryPayloads ==
    {Data(0, len) : len \in {0, 1, MsgLen,
                             MAX_SIZE_NOISE_MSG - AES_GCM_TAGLEN - 1,
                             MAX_SIZE_NOISE_MSG - AES_GCM_TAGLEN,
                             MAX_SIZE_NOISE_MSG - AES_GCM_TAGLEN + 1,
                             MAX_SIZE_NOISE_MSG, MAX_SIZE_NOISE_MSG + 1}}
\* the peer's read_message refuses the item for its length
LengthRejected(item) ==
    LET r == read_message(sess["resp"], <<item>>)
    IN  \/ r.ret = "Message too large"
        \/ r.cause \in {"ReceivedMsgTooLarge", "ResponseBufferTooSmall"}

\* C34: every frame write_message emits successfully declares a length
\* between 16 and 65535, so the peer's read_message never rejects it for its
\* length; and every payload length write_message rejects would have made a
\* frame the reader rejects.
C34_WriterAndReaderBoundsAgree ==
    /\ (io.op = "write_message" /\ io.ret = "Ok") =>
          /\ io.declared >= AES_GCM_TAGLEN
          /\ io.declared <= MAX_SIZE_NOISE_MSG
    /\ \A i \in DOMAIN outbound :
          /\ outbound[i].prefix \in AES_GCM_TAGLEN..MAX_SIZE_NOISE_MSG
          /\ ~LengthRejected(outbound[i])
    /\ \A m \in BoundaryPayloads :
          LET r == write_message(sess["ini"], m, SoundStream)
          IN  /\ r.ret = "Ok" =>
                    /\ r.declared = m.len + AES_GCM_TAGLEN
                    /\ r.declared \in AES_GCM_TAGLEN..MAX_SIZE_NOISE_MSG
                    /\ ~LengthRejected(r.written[1])
              /\ r.cause = "PayloadTooLarge" =>
                    /\ m.len + AES_GCM_TAGLEN > MAX_SIZE_NOISE_MSG
                    /\ LengthRejected(BarePrefix(m.len + AES_GCM_TAGLEN))

\* a write was rejected for its length after one that emitted a frame, and
\* the largest payload allowed would be written now
C34_Witness ==
    /\ io.op = "write_message"
    /\ io.cause = "PayloadTooLarge"
    /\ outbound # <<>>
    /\ write_message(sess["ini"],
                     Data(0, MAX_SIZE_NOISE_MSG - AES_GCM_TAGLEN), SoundStream).ret = "Ok"

\* the frames the inner stream holds whole, in the order written
Complete(stream) == SelectSeq(stream, LAMBDA item : item.body # <<>>)

\* C35: whenever no write_message call is in progress the session's
\* write_nonce equals the number of frames completely written to the inner
\* stream, also after a write_message that returned an I/O error; hence a
\* write_message that succeeds after a failed one is decryptable by the peer.
C35_NonceCountsWrittenFrames ==
    /\ sess["ini"].write_nonce = Len(Complete(outbound))
    /\ (io.op = "write_message" /\ io.ret = "Ok") =>
          LET frames == Complete(outbound)
              frame == frames[Len(frames)]
          IN  CanOpen(sess["resp"].read_key, Len(frames) - 1, <<>>, frame.body[1])

\* C36: in every reachable state of two connected sessions, whatever the
\* channel does to frames (drop, duplicate, reorder, modify), the reader's
\* read_nonce for a direction never exceeds the peer's write_nonce for that
\* direction: a reader never accepts more frames than its peer has produced.
C36_ReaderNeverAhead ==
    \A s \in Slots :
       (sess[s] # NoSession /\ sess[Peer(s)] # NoSession) =>
          /\ sess[s].read_nonce <= sess[Peer(s)].write_nonce
          /\ accepted[s] <= Len(wire[Peer(s)])
          /\ accepted[s] = sess[s].read_nonce

\* a reader that has accepted every frame its peer produced is handed one of
\* them again, or a modified one, and refuses it
C36_Witness ==
    \E s \in Slots :
       /\ sess[s] # NoSession /\ sess[Peer(s)] # NoSession
       /\ sess[Peer(s)].write_nonce >= 1
       /\ sess[s].read_nonce = sess[Peer(s)].write_nonce
       /\ last.op = "read" /\ last.slot = s /\ last.ret = "Decrypt"

\* the inner stream holds the frames write_message produced and nothing else:
\* each a prefix declaring the sealed payload and its tag, then that ciphertext
OnlyFrames ==
    /\ Len(outbound) = Len(wire["ini"])
    /\ \A i \in DOMAIN outbound :
          LET ct == wire["ini"][i]
          IN  /\ outbound[i] = FrameItem([len |-> ct.pt.len + AES_GCM_TAGLEN, ct |-> ct])
              /\ ct.key = sess["ini"].write_key
              /\ ct.nonce = i - 1
\* what a poll would do now
PollsAreInert ==
    \A len \in PollLens :
       LET w == poll_write(sess["ini"], Data(0, len))
           r == poll_read(read_buffer, read_pos, len)
       IN  /\ w.written = <<>>
           /\ w.session = sess["ini"]
           /\ w.ret = len
           /\ read_buffer = <<>> =>
                 r.ret = 0 /\ r.taken = 0 /\ r.out = <<>> /\ r.read_pos = read_pos
\* what a poll did
PollStep ==
    polled' # polled =>
       /\ outbound' = outbound
       /\ inbound' = inbound
       /\ sess' = sess
       /\ wire' = wire
       /\ polled'.op = "poll_write" => polled'.ret = polled'.len
       /\ (polled'.op = "poll_read" /\ read_buffer = <<>>) =>
             polled'.ret = 0 /\ polled'.out = <<>>

\* C37: every byte a NoiseStream writes to its inner stream belongs to a
\* length-prefixed encrypted frame produced by write_message: poll_write never
\* forwards the caller's plaintext to the inner stream and never changes the
\* session, although it reports all bytes as written, and poll_read with an
\* empty read buffer reads nothing from the inner stream and returns 0 bytes.
C37_OnlyFramesReachInnerStream ==
    /\ [](OnlyFrames /\ PollsAreInert)
    /\ [][PollStep]_vars

\* poll_write has reported a whole buffer as written and poll_read would
\* return 0, while frames are on the inner stream in both directions
C37_Witness ==
    /\ polled = Poll("poll_write", MsgLen, MsgLen, <<>>)
    /\ poll_read(read_buffer, read_pos, MsgLen).ret = 0
    /\ outbound # <<>>
    /\ inbound # <<>>

====
